---- MODULE Spec2Model ----
(***************************************************************************)
(* Class linking and resolution (runtime/class_linker.cc, kept in this     *)
(* tree as src/runtime/mem_map.h): the class status state machine driven   *)
(* by FindClass / DefineClass / EnsureResolved / VerifyClass /             *)
(* InitializeClass, the class table, the per-class monitors, and the       *)
(* vtable builder LinkVirtualMethods.                                      *)
(*                                                                         *)
(* Every thread owns a call stack of frames.  A frame is one activation of *)
(* FindClass (with DefineClass and EnsureResolved inlined, as in the       *)
(* source where they are tail calls), of InitializeClass (with             *)
(* WaitForInitializeClass inlined), of VerifyClass, or of InitFromCompiler.*)
(* Each action executes the code between two scheduling points of one      *)
(* frame: a monitor acquisition, a monitor wait, a call, or a return.      *)
(***************************************************************************)
EXTENDS Integers, Sequences, FiniteSets, TLC

\* ---------------------------------------------------------------- bounds
MaxObj == 5        \* class objects the heap can hold; AllocClass returns null beyond
MaxStack == 4      \* frames on one thread's stack
MaxCalls == 2      \* calls into the linker that the threads make in one run
MaxDepth == 2      \* LinkVirtualMethods: depth of the class chain below the root class

Threads == {"t1", "t2"}
Objs == 1..MaxObj

\* ------------------------------------------------------- program constants
NULL == 0
kStatusError == -1
kStatusNotReady == 0
\* a class inserted while its status is still the one it was allocated with
kStatusAsAllocated == kStatusNotReady
kStatusIdx == 1
kStatusLoaded == 2
kStatusResolved == 3
kStatusVerifying == 4
kStatusRetryVerificationAtRuntime == 5
kStatusVerifyingAtRuntime == 6
kStatusVerified == 7
kStatusInitializing == 8
kStatusInitialized == 9

Status == kStatusError..kStatusInitialized

\* ------------------------------------------------- the classes of the run
\* Descriptors known to the class paths.  Obj is java.lang.Object, S a boot
\* class path class extending it, C an application class extending S.
Descs == {"Obj", "S", "C"}
\* the one array descriptor of the run, "[Ljava/lang/Object;", and its component
ArrayDescs == {"[Obj"}
ComponentOf(d) == "Obj"
BootLoader == "null"
AppLoader == "app"
Loaders == {BootLoader, AppLoader}
NoThread == "none"
NoDesc == "-"

\* the class definitions of the dex files: Obj and S on the boot class path,
\* S extends Obj, C extends S
ChainDefs ==
  [superclass_idx |-> [d \in Descs |-> CASE d = "Obj" -> NoDesc [] d = "S" -> "Obj"
                                         [] OTHER -> "S"],
   boot_class_path |-> {"Obj", "S"}]
\* the chain with every class definition in the dex file of the boot class
\* path, so that C takes its super class from the dex cache S is in
BootDefs ==
  [superclass_idx |-> ChainDefs.superclass_idx,
   boot_class_path |-> {"Obj", "S", "C"}]
\* malformed class definitions: S and C, off the boot class path, extend
\* each other
CyclicDefs ==
  [superclass_idx |-> [d \in Descs |-> CASE d = "Obj" -> NoDesc [] d = "S" -> "C"
                                         [] OTHER -> "S"],
   boot_class_path |-> {"Obj"}]
DexFiles == {"boot.dex", "app.dex"}

\* klass->FindClassInitializer() != NULL
FindClassInitializer(d) == d \in {"S", "C"}
\* NumStaticFields() != 0 and static_values_off_ != 0
HasStaticValues(d) == d = "C"

VARIABLES
  IsCompiler,          \* Runtime::Current()->IsCompiler()
  init_done_,          \* ClassLinker::init_done_
  aborted,             \* a CHECK / LOG(FATAL) fired: the process is gone
  klassDesc,           \* per class object: its descriptor (NoDesc: not allocated)
  klassLoader,         \* per class object: GetClassLoader()
  status,              \* per class object: GetStatus()
  clinitThreadId,      \* per class object: GetClinitThreadId()
  superClass,          \* per class object: GetSuperClass()
  lockOwner,           \* per class object: owner of its monitor
  lockDepth,           \* per class object: recursion count of its monitor
  class_table_,        \* ClassLinker::class_table_ (set of class objects)
  dex_cache_image_class_lookup_required_,
  resolvedTypes,       \* DexCache::resolved_types_ of each dex file
  stack,               \* per thread: call stack of frames
  exc,                 \* per thread: pending exception
  ret,                 \* per thread: value returned by the last call
  call,                \* per thread: the outermost call in progress / just done
  verifyErrorClass,    \* per class object: GetVerifyErrorClass()
  clinitInvoked,       \* per class object: number of <clinit> invocations
  calls,               \* calls into the linker made so far
  linkClasses,         \* LinkVirtualMethods: per class of a chain, its package and virtuals
  vtable,              \* LinkVirtualMethods: per class, GetVTable() (slot j is element j+1)
  methodIndex,         \* LinkVirtualMethods: per method, GetMethodIndex() (-1: not set)
  linked,              \* LinkVirtualMethods: per class, the outcome of linking it
  fieldsKlass,         \* LinkFields: the class being laid out (descriptor, super class)
  sfields,             \* LinkFields: klass->GetSFields(), the array in order
  ifields,             \* LinkFields: klass->GetIFields(), the array in order
  fieldOffset,         \* LinkFields: per field, ArtField::GetOffset() (NoOffset: not set)
  num_reference_fields_,  \* LinkFields: per is_static, NumReference{Static,Instance}Fields()
  class_size_,         \* LinkFields: klass->GetClassSize()
  object_size_,        \* LinkFields: klass->GetObjectSize()
  linkFieldsRuns,      \* LinkFields: per is_static, the runs of LinkFields so far
  ifDefs,              \* LinkInterfaceMethods: per class or interface, its definition
  iftable,             \* LinkInterfaceMethods: per class, GetIfTable() (<<>>: NULL)
  imtable,             \* LinkInterfaceMethods: per class, GetImTable()
  ifVTable,            \* LinkInterfaceMethods: per class, GetVTable()
  ifVirtuals,          \* LinkInterfaceMethods: per class, its virtual methods
  ifTableObject,       \* LinkInterfaceMethods: per class, the IfTable object its
                       \* GetIfTable() points to, named by the class that allocated it
  ifLinked,            \* LinkInterfaceMethods: per class, the outcome of linking it
  vtCount,             \* LinkMethods by the numbers: the class and its vtable length
  class_defs,          \* the class definitions of the dex files on the class paths
  reg,                 \* the registries and their locks: dex_lock_, dex_caches_,
                       \* classlinker_classes_lock_, the table, each thread's position
  rt,                  \* ResolveType on one dex cache: resolved_types_, the classes
                       \* the loaders have defined, each thread's position
  static_values,       \* per class object: InitializeClass has read the encoded
                       \* static values of its class definition into its fields
  verifier_runs,       \* per class object: the times VerifyClass has asked the oat
                       \* file or the verifier about it
  kAccPreverified,     \* per class object: SetPreverifiedFlagOnAllMethods was called
  img                  \* LookupClass over the table and the image: class_table_,
                       \* failed_dex_cache_class_lookups_, the last lookup

heapVars == <<klassDesc, klassLoader, status, clinitThreadId, superClass, verifyErrorClass>>
lockVars == <<lockOwner, lockDepth>>
tableVars == <<class_table_, dex_cache_image_class_lookup_required_>>
globalVars == <<IsCompiler, init_done_, aborted>>
threadVars == <<stack, exc, ret, call>>
\* the state of the method table builder, which the class lifecycle leaves alone
vtableVars == <<linkClasses, vtable, methodIndex, linked>>
\* the state of the field layout
fieldVars == <<fieldsKlass, sfields, ifields, fieldOffset, num_reference_fields_, class_size_,
               object_size_, linkFieldsRuns>>
\* the state of the interface table builder
ifaceVars == <<ifDefs, iftable, imtable, ifVTable, ifVirtuals, ifTableObject, ifLinked>>
countVars == <<vtCount>>
\* the dex files, which no operation changes
dexVars == <<class_defs>>
regVars == <<reg>>
rtVars == <<rt>>
imgVars == <<img>>
\* what InitializeClass and VerifyClass have done to each class object
doneVars == <<static_values, verifier_runs, kAccPreverified>>
linkVars == <<vtableVars, fieldVars, ifaceVars, countVars, dexVars, doneVars, imgVars, regVars, rtVars>>
lifecycleVars == <<globalVars, heapVars, lockVars, tableVars, resolvedTypes, threadVars,
                   clinitInvoked, calls>>
vars == <<lifecycleVars, linkVars>>

\* DexFile::FindInClassPath over boot_class_path_ / the compile time class path
BootClassPath == class_defs.boot_class_path
AppClassPath == Descs \ BootClassPath
IsInBootClassPath(d) == d \in BootClassPath

\* class_def.superclass_idx_ of each class definition
superclass_idx(d) == class_defs.superclass_idx[d]

\* the dex file (compilation unit) a class definition lives in
DexFileOf(d) == IF d \in BootClassPath THEN "boot.dex" ELSE "app.dex"

\* --------------------------------------------------------------- exceptions
NoException == [kind |-> "none", cause |-> "none"]
Throw(kind) == [kind |-> kind, cause |-> "none"]
\* env->IsInstanceOf(cause, WellKnownClasses::java_lang_Error)
IsInstanceOfError(e) == e.kind \notin {"UserException", "ClassNotFoundException"}

\* ----------------------------------------------------- mirror::Class tests
IsErroneous(o) == status[o] = kStatusError
IsLoaded(o) == status[o] >= kStatusLoaded
IsResolved(o) == status[o] >= kStatusResolved
IsCompileTimeVerified(o) == status[o] >= kStatusRetryVerificationAtRuntime
IsVerified(o) == status[o] >= kStatusVerified
IsInitialized(o) == status[o] = kStatusInitialized
HasSuperClass(o) == superClass[o] # NULL

Allocated == {o \in Objs : klassDesc[o] # NoDesc}

\* ------------------------------------------------------------------ frames
Frame(fn, pc, d, l, k, e, cs, cp) ==
  [fn |-> fn, pc |-> pc, d |-> d, l |-> l, k |-> k, e |-> e, cs |-> cs, cp |-> cp]
FindFrame(pc, d, l) == Frame("FindClass", pc, d, l, NULL, NULL, FALSE, FALSE)
InitFrame(k, cs, cp) == Frame("InitializeClass", "start", NoDesc, NoDesc, k, NULL, cs, cp)
VerifyFrame(k) == Frame("VerifyClass", "start", NoDesc, NoDesc, k, NULL, FALSE, FALSE)

Top(t) == stack[t][Len(stack[t])]
At(t, fn, pc) ==
  /\ ~aborted
  /\ stack[t] # <<>>
  /\ Top(t).fn = fn
  /\ Top(t).pc = pc
Pop(t) == SubSeq(stack[t], 1, Len(stack[t]) - 1)
WithTop(t, f) == [stack EXCEPT ![t] = Append(Pop(t), f)]
Pushed(t, f, g) == [stack EXCEPT ![t] = Append(Append(Pop(t), f), g)]
Popped(t) == [stack EXCEPT ![t] = Pop(t)]
CanPush(t) == Len(stack[t]) < MaxStack

\* ---------------------------------------------------------------- monitors
\* ObjectLock<mirror::Class> lock(self, &klass): blocks while another thread
\* owns the monitor; recursive for the owner.
CanLock(t, o) == lockOwner[o] \in {NoThread, t}
Locked(lo, t, o) == [lo EXCEPT ![o] = t]
Deeper(ld, o) == [ld EXCEPT ![o] = @ + 1]
Shallower(ld, o) == [ld EXCEPT ![o] = @ - 1]
Released(lo, ld, o) == [lo EXCEPT ![o] = IF ld[o] = 1 THEN NoThread ELSE @]

\* ------------------------------------------------------------ small helpers
\* class_roots_[kJavaLangObject]: the first object either boot path creates
GetClassRoot == 1

\* Runtime::Current()->UseCompileTimeClassPath(): the compiler resolves
\* application classes through the compile time class path
UseCompileTimeClassPath == IsCompiler

\* the lowest free slot of the heap, NULL when the heap is full
AllocClass == IF Objs \ Allocated = {} THEN NULL
              ELSE CHOOSE o \in Objs \ Allocated : \A p \in Objs \ Allocated : o <= p

\* a table lookup that finds nothing
LookupClassMisses(d, l) == NULL
\* ClassLinker::LookupClassFromTableLocked
LookupClassFromTableLocked(d, l) ==
  IF \E o \in class_table_ : klassDesc[o] = d /\ klassLoader[o] = l
  THEN CHOOSE o \in class_table_ : klassDesc[o] = d /\ klassLoader[o] = l
  ELSE NULL

\* ClassLinker::InsertClass, the lookup under the writer lock that decides
\* between "return existing" and the insert
InsertClassNoLookup(klass) == NULL
InsertClassExisting(klass) == LookupClassFromTableLocked(klassDesc[klass], klassLoader[klass])

\* ClassLinker::LookupClassFromImage: the resolved types of the image dex cache
LookupClassFromImage(d) == IF d \in Descs THEN resolvedTypes["boot.dex"][d] ELSE NULL

\* ThrowEarlierClassFailure
ThrowNothing(o) == NoException
ThrowEarlierClassFailure(o) ==
  IF verifyErrorClass[o] # "none" THEN Throw(verifyErrorClass[o])
  ELSE Throw("NoClassDefFoundError")

\* the pending exception left as it is
LeaveExceptionPending(e) == e
\* WrapExceptionInInitializer
WrapExceptionInInitializer(e) ==
  IF IsInstanceOfError(e) THEN e
  ELSE [kind |-> "ExceptionInInitializerError", cause |-> e.kind]

\* CanWeInitializeClass
RECURSIVE CanWeInitializeClass(_, _, _)
CanWeInitializeClass(k, can_init_statics, can_init_parents) ==
  IF can_init_statics /\ can_init_parents THEN TRUE
  ELSE IF ~can_init_statics /\ FindClassInitializer(klassDesc[k]) THEN FALSE
  ELSE IF ~can_init_statics /\ HasStaticValues(klassDesc[k]) THEN FALSE
  ELSE IF HasSuperClass(k)
       THEN IF ~can_init_parents /\ ~IsInitialized(superClass[k]) THEN FALSE
            ELSE CanWeInitializeClass(superClass[k], can_init_statics, can_init_parents)
       ELSE TRUE

\* what a call hands back: a class pointer (FindClass) or a success flag
\* (InitializeClass); VerifyClass hands back nothing
NoResult == [class |-> NULL, success |-> FALSE]
ClassResult(klass) == [class |-> klass, success |-> klass # NULL]

\* what a FindClass frame leaves behind when it returns: the monitor of the
\* class it was defining is released (ObjectLock destructor) and a class
\* object that never reached the class table is garbage
FindReturn(t, v, st, vec) ==
  LET f == Top(t)
      k == f.k
      held == k # NULL /\ lockOwner[k] = t
      drop == k # NULL /\ k \notin class_table_ /\ ~(k = GetClassRoot /\ ~init_done_)
  IN  /\ stack' = Popped(t)
      /\ ret' = [ret EXCEPT ![t] = ClassResult(v)]
      /\ lockOwner' = IF held THEN Released(lockOwner, lockDepth, k) ELSE lockOwner
      /\ lockDepth' = IF held THEN Shallower(lockDepth, k) ELSE lockDepth
      /\ klassDesc' = IF drop THEN [klassDesc EXCEPT ![k] = NoDesc] ELSE klassDesc
      /\ klassLoader' = IF drop THEN [klassLoader EXCEPT ![k] = BootLoader] ELSE klassLoader
      /\ status' = IF drop THEN [st EXCEPT ![k] = kStatusNotReady] ELSE st
      /\ clinitThreadId' = IF drop THEN [clinitThreadId EXCEPT ![k] = NoThread]
                           ELSE clinitThreadId
      /\ superClass' = IF drop THEN [superClass EXCEPT ![k] = NULL] ELSE superClass
      /\ verifyErrorClass' = IF drop THEN [vec EXCEPT ![k] = "none"] ELSE vec

\* FindSystemClass called from FindClass is followed by CHECK(system_class != NULL)
FindReturnChecked(t, v, st, vec) ==
  IF Top(t).cs /\ v = NULL
  THEN /\ aborted' = TRUE
       /\ UNCHANGED <<heapVars, lockVars, stack, ret>>
  ELSE /\ FindReturn(t, v, st, vec)
       /\ UNCHANGED aborted

\* ------------------------------------------------------------- FindClass
\* ClassLinker::FindClass up to LookupClass's table lookup
FindClass(t) ==
  /\ At(t, "FindClass", "LookupClass")
  /\ LET f == Top(t)
         result == LookupClassFromTableLocked(f.d, f.l)
     IN  stack' = WithTop(t,
           IF result # NULL THEN [f EXCEPT !.pc = "EnsureResolved", !.e = result]
           ELSE IF f.l # BootLoader \/ ~dex_cache_image_class_lookup_required_
                THEN [f EXCEPT !.pc = "NotLoaded"]
                ELSE [f EXCEPT !.pc = "LookupClassFromImage"])
  /\ UNCHANGED <<globalVars, heapVars, lockVars, tableVars, resolvedTypes, exc, ret, call,
                 clinitInvoked>>
  /\ UNCHANGED <<calls, linkVars>>

\* ClassLinker::LookupClass, the fallback on the boot image after a table miss
LookupClass(t) ==
  /\ At(t, "FindClass", "LookupClassFromImage")
  /\ LET f == Top(t)
         result == LookupClassFromImage(f.d)
     IN  IF result # NULL
         THEN /\ class_table_' =
                   IF InsertClassExisting(result) # NULL
                   THEN class_table_ ELSE class_table_ \cup {result}
              /\ stack' = WithTop(t, [f EXCEPT !.pc = "EnsureResolved", !.e = result])
         ELSE /\ stack' = WithTop(t, [f EXCEPT !.pc = "NotLoaded"])
              /\ UNCHANGED class_table_
  /\ UNCHANGED <<globalVars, heapVars, lockVars, dex_cache_image_class_lookup_required_,
                 resolvedTypes, exc, ret, call, clinitInvoked>>
  /\ UNCHANGED <<calls, linkVars>>

\* ClassLinker::FindClass, "Class is not yet loaded": pick the definer
FindClassNotLoaded(t) ==
  /\ At(t, "FindClass", "NotLoaded")
  /\ LET f == Top(t) IN
     \/ \* descriptor[0] == '[': CreateArrayClass, which first finds the component type
        /\ f.d \in ArrayDescs
        /\ CanPush(t)
        /\ stack' = Pushed(t, [f EXCEPT !.pc = "CreateArrayClass"],
                           FindFrame("LookupClass", ComponentOf(f.d), f.l))
        /\ UNCHANGED <<exc, ret, aborted, heapVars, lockVars>>
     \/ /\ f.d \notin ArrayDescs
        /\ f.l = BootLoader
        /\ IF f.d \in BootClassPath
           THEN /\ stack' = WithTop(t, [f EXCEPT !.pc = "DefineClass"])
                /\ UNCHANGED <<exc, ret, aborted, heapVars, lockVars>>
           ELSE /\ exc' = [exc EXCEPT ![t] = Throw("NoClassDefFoundError")]
                /\ FindReturnChecked(t, NULL, status, verifyErrorClass)
     \/ /\ f.d \notin ArrayDescs
        /\ f.l # BootLoader
        /\ UseCompileTimeClassPath
        /\ IF IsInBootClassPath(f.d)
           THEN /\ stack' = WithTop(t, [f EXCEPT !.pc = "LookupClass", !.l = BootLoader,
                                                 !.cs = TRUE])
                /\ UNCHANGED <<exc, ret, aborted, heapVars, lockVars>>
           ELSE IF f.d \in AppClassPath
           THEN /\ stack' = WithTop(t, [f EXCEPT !.pc = "DefineClass"])
                /\ UNCHANGED <<exc, ret, aborted, heapVars, lockVars>>
           ELSE /\ exc' = [exc EXCEPT ![t] = Throw("NoClassDefFoundError")]
                /\ FindReturnChecked(t, NULL, status, verifyErrorClass)
     \/ \* ClassLoader.loadClass throws
        /\ f.d \notin ArrayDescs
        /\ f.l # BootLoader
        /\ ~UseCompileTimeClassPath
        /\ exc' = [exc EXCEPT ![t] = Throw("ClassNotFoundException")]
        /\ FindReturnChecked(t, NULL, status, verifyErrorClass)
     \/ \* ClassLoader.loadClass delegates to the boot loader or defines the class
        /\ f.d \notin ArrayDescs
        /\ f.l # BootLoader
        /\ ~UseCompileTimeClassPath
        /\ CanPush(t)
        /\ \E g \in {FindFrame("LookupClass", f.d, BootLoader)} \cup
                    (IF f.d \in AppClassPath THEN {FindFrame("DefineClass", f.d, f.l)}
                     ELSE {}) :
             stack' = Pushed(t, [f EXCEPT !.pc = "loadClass"], g)
        /\ UNCHANGED <<exc, ret, aborted, heapVars, lockVars>>
  /\ UNCHANGED <<IsCompiler, init_done_, tableVars, resolvedTypes, call, clinitInvoked>>
  /\ UNCHANGED <<calls, linkVars>>

\* ClassLinker::FindClass after ClassLoader.loadClass returned
FindClassLoaded(t) ==
  /\ At(t, "FindClass", "loadClass")
  /\ IF exc[t] # NoException
     THEN /\ FindReturnChecked(t, NULL, status, verifyErrorClass)
          /\ UNCHANGED exc
     ELSE IF ret[t].class = NULL
     THEN /\ exc' = [exc EXCEPT ![t] = Throw("NullPointerException")]
          /\ FindReturnChecked(t, NULL, status, verifyErrorClass)
     ELSE /\ FindReturnChecked(t, ret[t].class, status, verifyErrorClass)
          /\ UNCHANGED exc
  /\ UNCHANGED <<IsCompiler, init_done_, tableVars, resolvedTypes, call, clinitInvoked>>
  /\ UNCHANGED <<calls, linkVars>>


\* ------------------------------------------------------------ DefineClass
\* ClassLinker::DefineClass up to the load check: AllocClass and LoadClass
DefineClass(t) ==
  /\ At(t, "FindClass", "DefineClass")
  /\ LET f == Top(t)
         root == ~init_done_ /\ f.d = "Obj"
         klass == IF root THEN GetClassRoot ELSE AllocClass
     IN
     \/ \* AllocClass returned null: OOME
        /\ ~root
        /\ exc' = [exc EXCEPT ![t] = Throw("OutOfMemoryError")]
        /\ FindReturnChecked(t, NULL, status, verifyErrorClass)
        /\ UNCHANGED clinitInvoked
     \/ \* LoadClass: CHECK_EQ(kStatusNotReady, klass->GetStatus())
        /\ klass # NULL
        /\ status[klass] # kStatusNotReady
        /\ aborted' = TRUE
        /\ UNCHANGED <<heapVars, lockVars, stack, ret, exc, clinitInvoked>>
     \/ /\ klass # NULL
        /\ status[klass] = kStatusNotReady
        /\ klassDesc' = [klassDesc EXCEPT ![klass] = f.d]
        /\ klassLoader' = [klassLoader EXCEPT ![klass] = f.l]
        /\ status' = [status EXCEPT ![klass] = kStatusIdx]
        /\ clinitInvoked' = [clinitInvoked EXCEPT ![klass] = 0]
        /\ \/ /\ stack' = WithTop(t, [f EXCEPT !.pc = "InsertClass", !.k = klass])
              /\ UNCHANGED exc
           \/ \* LoadClassMembers left an exception pending
              /\ stack' = WithTop(t, [f EXCEPT !.pc = "LoadFailed", !.k = klass])
              /\ exc' = [exc EXCEPT ![t] = Throw("OutOfMemoryError")]
        /\ UNCHANGED <<clinitThreadId, superClass, verifyErrorClass, lockVars, ret, aborted>>
  /\ UNCHANGED <<IsCompiler, init_done_, tableVars, resolvedTypes, call>>
  /\ UNCHANGED <<calls, linkVars>>

\* ClassLinker::DefineClass, "Check for a pending exception during load"
DefineClassLoadFailed(t) ==
  /\ At(t, "FindClass", "LoadFailed")
  /\ FindReturnChecked(t, NULL, [status EXCEPT ![Top(t).k] = kStatusError], verifyErrorClass)
  /\ UNCHANGED <<IsCompiler, init_done_, tableVars, resolvedTypes, exc, call, clinitInvoked>>
  /\ UNCHANGED <<calls, linkVars>>

\* ClassLinker::InsertClass as called by DefineClass, which first takes the
\* monitor of the new class and records the defining thread
InsertClass(t) ==
  /\ At(t, "FindClass", "InsertClass")
  /\ LET f == Top(t)
         klass == f.k
         existing == InsertClassExisting(klass)
     IN  /\ CanLock(t, klass)
         /\ lockOwner' = Locked(lockOwner, t, klass)
         /\ lockDepth' = Deeper(lockDepth, klass)
         /\ clinitThreadId' = [clinitThreadId EXCEPT ![klass] = t]
         /\ IF existing # NULL
            THEN /\ stack' = WithTop(t, [f EXCEPT !.pc = "EnsureResolved", !.e = existing])
                 /\ UNCHANGED class_table_
            ELSE /\ class_table_' = class_table_ \cup {klass}
                 /\ stack' = WithTop(t, [f EXCEPT !.pc = "LoadSuperAndInterfaces"])
  /\ UNCHANGED <<globalVars, klassDesc, klassLoader, status, superClass, verifyErrorClass,
                 dex_cache_image_class_lookup_required_, resolvedTypes, exc, ret, call,
                 clinitInvoked>>
  /\ UNCHANGED <<calls, linkVars>>

\* ClassLinker::LoadSuperAndInterfaces up to ResolveType's FindClass call
LoadSuperAndInterfaces(t) ==
  /\ At(t, "FindClass", "LoadSuperAndInterfaces")
  /\ LET f == Top(t)
         klass == f.k
         super_class_idx == superclass_idx(f.d)
         resolved == IF super_class_idx = NoDesc THEN NULL
                     ELSE resolvedTypes[DexFileOf(f.d)][super_class_idx]
     IN  IF status[klass] # kStatusIdx
         THEN /\ aborted' = TRUE
              /\ UNCHANGED <<heapVars, stack>>
         ELSE IF super_class_idx = NoDesc \/ resolved # NULL
         THEN /\ superClass' = [superClass EXCEPT ![klass] = resolved]
              /\ status' = [status EXCEPT ![klass] = kStatusLoaded]
              /\ stack' = WithTop(t, [f EXCEPT !.pc = "LinkClass"])
              /\ UNCHANGED <<aborted, klassDesc, klassLoader, clinitThreadId, verifyErrorClass>>
         ELSE /\ CanPush(t)
              /\ stack' = Pushed(t, [f EXCEPT !.pc = "ResolveType"],
                                 FindFrame("LookupClass", super_class_idx, klassLoader[klass]))
              /\ UNCHANGED <<aborted, heapVars>>
  /\ UNCHANGED <<IsCompiler, init_done_, lockVars, tableVars, resolvedTypes, exc, ret, call,
                 clinitInvoked>>
  /\ UNCHANGED <<calls, linkVars>>

\* ClassLinker::ResolveType after FindClass returned, the rest of
\* LoadSuperAndInterfaces and DefineClass's "Loading failed"
ResolveType(t) ==
  /\ At(t, "FindClass", "ResolveType")
  /\ LET f == Top(t)
         klass == f.k
         resolved == ret[t].class
     IN  IF resolved # NULL
         THEN /\ resolvedTypes' = [resolvedTypes EXCEPT
                                     ![DexFileOf(f.d)][superclass_idx(f.d)] = resolved]
              /\ superClass' = [superClass EXCEPT ![klass] = resolved]
              /\ status' = [status EXCEPT ![klass] = kStatusLoaded]
              /\ stack' = WithTop(t, [f EXCEPT !.pc = "LinkClass"])
              /\ UNCHANGED <<aborted, klassDesc, klassLoader, clinitThreadId, verifyErrorClass,
                             lockVars, exc, ret>>
         ELSE /\ exc' = [exc EXCEPT ![t] =
                           IF @.kind = "ClassNotFoundException"
                           THEN [kind |-> "NoClassDefFoundError", cause |-> @.kind]
                           ELSE @]
              /\ FindReturnChecked(t, NULL, [status EXCEPT ![klass] = kStatusError],
                                   verifyErrorClass)
              /\ UNCHANGED resolvedTypes
  /\ UNCHANGED <<IsCompiler, init_done_, tableVars, call, clinitInvoked>>
  /\ UNCHANGED <<calls, linkVars>>

\* a failure that leaves the status of the class as it was
StatusKept(klass) == status
\* DefineClass: "Linking failed", klass->SetStatus(kStatusError)
StatusLinkingFailed(klass) == [status EXCEPT ![klass] = kStatusError]

\* ClassLinker::LinkClass and the end of DefineClass
LinkClass(t) ==
  /\ At(t, "FindClass", "LinkClass")
  /\ LET f == Top(t)
         klass == f.k
     IN  IF status[klass] # kStatusLoaded
            \/ (HasSuperClass(klass) /\ ~IsResolved(superClass[klass]))
         THEN \* CHECK_EQ(kStatusLoaded, ...) / LinkFields' CHECK(super_class->IsResolved())
              /\ aborted' = TRUE
              /\ UNCHANGED <<heapVars, lockVars, stack, ret, exc>>
         ELSE \/ /\ FindReturnChecked(t, klass, [status EXCEPT ![klass] = kStatusResolved],
                                      verifyErrorClass)
                 /\ UNCHANGED exc
              \/ \* LinkSuperClass, LinkMethods or LinkFields failed
                 /\ \E e \in {"LinkageError", "OutOfMemoryError"} :
                      exc' = [exc EXCEPT ![t] = Throw(e)]
                 /\ FindReturnChecked(t, NULL, StatusLinkingFailed(klass), verifyErrorClass)
  /\ UNCHANGED <<IsCompiler, init_done_, tableVars, resolvedTypes, call, clinitInvoked>>
  /\ UNCHANGED <<calls, linkVars>>

\* -------------------------------------------------------- CreateArrayClass
\* the loader an array class goes with: "Array classes are always
\* associated with the class loader of their underlying element type"
RequestingLoader(class_loader, component_type) == class_loader
ArrayClassLoader(class_loader, component_type) == klassLoader[component_type]

\* ClassLinker::CreateArrayClass after FindClass(component) returned, up to
\* InsertClass: the lookup under the component's loader, AllocClass and the
\* fields of the new class, which is born kStatusInitialized
CreateArrayClass(t) ==
  /\ At(t, "FindClass", "CreateArrayClass")
  /\ LET f == Top(t)
         component_type == ret[t].class
         new_class == AllocClass
     IN  IF component_type = NULL
         THEN /\ FindReturnChecked(t, NULL, status, verifyErrorClass)
              /\ UNCHANGED exc
         ELSE IF f.l # klassLoader[component_type]
                 /\ LookupClassFromTableLocked(f.d, ArrayClassLoader(f.l, component_type)) # NULL
         THEN /\ FindReturnChecked(t, LookupClassFromTableLocked(f.d,
                                        ArrayClassLoader(f.l, component_type)),
                                   status, verifyErrorClass)
              /\ UNCHANGED exc
         ELSE IF new_class = NULL
         THEN /\ exc' = [exc EXCEPT ![t] = Throw("OutOfMemoryError")]
              /\ FindReturnChecked(t, NULL, status, verifyErrorClass)
         ELSE /\ klassDesc' = [klassDesc EXCEPT ![new_class] = f.d]
              /\ klassLoader' = [klassLoader EXCEPT
                                  ![new_class] = ArrayClassLoader(f.l, component_type)]
              /\ superClass' = [superClass EXCEPT ![new_class] = GetClassRoot]
              /\ status' = [status EXCEPT ![new_class] = kStatusInitialized]
              /\ stack' = WithTop(t, [f EXCEPT !.pc = "InsertArrayClass", !.k = new_class])
              /\ UNCHANGED <<clinitThreadId, verifyErrorClass, lockVars, exc, ret, aborted>>
  /\ UNCHANGED <<IsCompiler, init_done_, tableVars, resolvedTypes, call, clinitInvoked>>
  /\ UNCHANGED <<calls, linkVars>>

\* CreateArrayClass: InsertClass and "Another thread must have loaded the
\* class after we started but before we finished.  Abandon what we've done."
CreateArrayClassInsert(t) ==
  /\ At(t, "FindClass", "InsertArrayClass")
  /\ LET f == Top(t)
         existing == InsertClassExisting(f.k)
     IN  IF existing = NULL
         THEN /\ class_table_' = class_table_ \cup {f.k}
              /\ stack' = Popped(t)
              /\ ret' = [ret EXCEPT ![t] = ClassResult(f.k)]
              /\ UNCHANGED <<aborted, heapVars, lockVars>>
         ELSE /\ FindReturnChecked(t, existing, status, verifyErrorClass)
              /\ UNCHANGED class_table_
  /\ UNCHANGED <<IsCompiler, init_done_, dex_cache_image_class_lookup_required_,
                 resolvedTypes, exc, call, clinitInvoked>>
  /\ UNCHANGED <<calls, linkVars>>

\* ---------------------------------------------------------- EnsureResolved
\* EnsureResolved: the unlocked test "has it already been linked"
EnsureResolved(t) ==
  /\ At(t, "FindClass", "EnsureResolved")
  /\ LET f == Top(t) IN
     stack' = WithTop(t, [f EXCEPT !.pc = IF ~IsResolved(f.e) /\ ~IsErroneous(f.e)
                                           THEN "EnsureResolvedLock"
                                           ELSE "EnsureResolvedResult"])
  /\ UNCHANGED <<globalVars, heapVars, lockVars, tableVars, resolvedTypes, exc, ret, call,
                 clinitInvoked>>
  /\ UNCHANGED <<calls, linkVars>>

\* "Check for circular dependencies between classes."
NeverCircular(t, klass) == FALSE
IsCircular(t, klass) == ~IsResolved(klass) /\ clinitThreadId[klass] = t

\* EnsureResolved: take the monitor, check for circularity, wait while the
\* class is neither resolved nor erroneous.  Waiting releases the monitor;
\* a wakeup that still finds the class unlinked waits again.
EnsureResolvedLocked(t) ==
  /\ At(t, "FindClass", "EnsureResolvedLock")
  /\ LET f == Top(t)
         klass == f.e
     IN  /\ CanLock(t, klass)
         /\ IF IsCircular(t, klass)
            THEN /\ exc' = [exc EXCEPT ![t] = Throw("ClassCircularityError")]
                 /\ FindReturnChecked(t, NULL, [status EXCEPT ![klass] = kStatusError],
                                      verifyErrorClass)
            ELSE /\ IsResolved(klass) \/ IsErroneous(klass)
                 /\ stack' = WithTop(t, [f EXCEPT !.pc = "EnsureResolvedResult"])
                 /\ UNCHANGED <<exc, ret, aborted, heapVars, lockVars>>
  /\ UNCHANGED <<IsCompiler, init_done_, tableVars, resolvedTypes, call, clinitInvoked>>
  /\ UNCHANGED <<calls, linkVars>>

\* EnsureResolved: "if (klass->IsErroneous())" after the monitor was released
EnsureResolvedResult(t) ==
  /\ At(t, "FindClass", "EnsureResolvedResult")
  /\ LET f == Top(t) IN
     IF IsErroneous(f.e)
     THEN /\ exc' = [exc EXCEPT ![t] = ThrowEarlierClassFailure(f.e)]
          /\ FindReturnChecked(t, NULL, status, verifyErrorClass)
     ELSE /\ stack' = WithTop(t, [f EXCEPT !.pc = "EnsureResolvedCheck"])
          /\ UNCHANGED <<exc, ret, aborted, heapVars, lockVars>>
  /\ UNCHANGED <<IsCompiler, init_done_, tableVars, resolvedTypes, call, clinitInvoked>>
  /\ UNCHANGED <<calls, linkVars>>

\* EnsureResolved: CHECK(klass->IsResolved()) and return
EnsureResolvedCheck(t) ==
  /\ At(t, "FindClass", "EnsureResolvedCheck")
  /\ LET f == Top(t) IN
     IF ~IsResolved(f.e)
     THEN /\ aborted' = TRUE
          /\ UNCHANGED <<heapVars, lockVars, stack, ret>>
     ELSE FindReturnChecked(t, f.e, status, verifyErrorClass)
  /\ UNCHANGED <<IsCompiler, init_done_, tableVars, resolvedTypes, exc, call, clinitInvoked>>
  /\ UNCHANGED <<calls, linkVars>>


\* ------------------------------------------------------------ VerifyClass
ReturnVoid(t) ==
  /\ stack' = Popped(t)
  /\ ret' = [ret EXCEPT ![t] = NoResult]
Return(t, v) ==
  /\ stack' = Popped(t)
  /\ ret' = [ret EXCEPT ![t] = [class |-> NULL, success |-> v]]

\* verifier::MethodVerifier::VerifyClass and the oat file's recorded status
VerifierOutcomes == {"oatError", "preverified", "kNoFailure", "kSoftFailure", "kHardFailure"}
\* ClassLinker::VerifyClassUsingOatFile: the compiler asks the oat file only
\* about boot class path classes while compiling an app; anywhere else the
\* oat file may say verified, erroneous, or leave it to the verifier
VerifyClassUsingOatFile(klass) ==
  IF IsCompiler /\ (~UseCompileTimeClassPath \/ klassLoader[klass] # BootLoader)
  THEN VerifierOutcomes \ {"oatError", "preverified"}
  ELSE VerifierOutcomes

\* ClassLinker::VerifyClass up to "Verify super class"
VerifyClass(t) ==
  /\ At(t, "VerifyClass", "start")
  /\ LET f == Top(t)
         klass == f.k
     IN  /\ CanLock(t, klass)
         /\ IF IsVerified(klass) \/ (IsCompileTimeVerified(klass) /\ IsCompiler)
            THEN /\ ReturnVoid(t)
                 /\ UNCHANGED <<aborted, heapVars, lockVars, exc>>
            ELSE IF IsErroneous(klass)
            THEN /\ exc' = [exc EXCEPT ![t] = ThrowEarlierClassFailure(klass)]
                 /\ ReturnVoid(t)
                 /\ UNCHANGED <<aborted, heapVars, lockVars>>
            ELSE IF status[klass] = kStatusResolved
                    \/ (status[klass] = kStatusRetryVerificationAtRuntime /\ ~IsCompiler)
            THEN /\ status' = [status EXCEPT ![klass] =
                                 IF @ = kStatusResolved THEN kStatusVerifying
                                 ELSE kStatusVerifyingAtRuntime]
                 /\ lockOwner' = Locked(lockOwner, t, klass)
                 /\ lockDepth' = Deeper(lockDepth, klass)
                 /\ stack' = WithTop(t, [f EXCEPT !.pc = "super"])
                 /\ UNCHANGED <<aborted, klassDesc, klassLoader, clinitThreadId, superClass,
                                verifyErrorClass, exc, ret>>
            ELSE /\ aborted' = TRUE
                 /\ UNCHANGED <<heapVars, lockVars, stack, ret, exc>>
  /\ UNCHANGED <<IsCompiler, init_done_, tableVars, resolvedTypes, call, clinitInvoked>>
  /\ UNCHANGED <<calls, linkVars>>

\* VerifyClass that goes on to the verifier after the super class failed
VerifySuperDoneGoOn(t, f, lo, ld) ==
  LET klass == f.k
      super == superClass[klass]
  IN  /\ lockOwner' = Released(lo, ld, super)
      /\ lockDepth' = Shallower(ld, super)
      /\ stack' = WithTop(t, [f EXCEPT !.pc = "verify"])
      /\ IF ~IsCompileTimeVerified(super)
         THEN /\ exc' = [exc EXCEPT ![t] = [kind |-> "VerifyError", cause |-> @.kind]]
              /\ status' = [status EXCEPT ![klass] = kStatusError]
              /\ verifyErrorClass' = [verifyErrorClass EXCEPT ![klass] = "VerifyError"]
              /\ UNCHANGED ret
         ELSE UNCHANGED <<exc, ret, status, verifyErrorClass>>

\* VerifyClass, "Verify super class": what follows once the super class's
\* monitor is held and the super class has been verified if it had to be
VerifySuperDone(t, f, lo, ld) ==
  LET klass == f.k
      super == superClass[klass]
  IN  IF ~IsCompileTimeVerified(super)
      THEN /\ exc' = [exc EXCEPT ![t] = [kind |-> "VerifyError", cause |-> @.kind]]
           /\ status' = [status EXCEPT ![klass] = kStatusError]
           /\ verifyErrorClass' = [verifyErrorClass EXCEPT ![klass] = "VerifyError"]
           /\ lockOwner' = Released(Released(lo, ld, super), Shallower(ld, super), klass)
           /\ lockDepth' = Shallower(Shallower(ld, super), klass)
           /\ ReturnVoid(t)
      ELSE /\ lockOwner' = Released(lo, ld, super)
           /\ lockDepth' = Shallower(ld, super)
           /\ stack' = WithTop(t, [f EXCEPT !.pc = "verify"])
           /\ UNCHANGED <<exc, ret, status, verifyErrorClass>>

\* VerifyClass: lock the super class and verify it first
VerifyClassSuper(t) ==
  /\ At(t, "VerifyClass", "super")
  /\ LET f == Top(t)
         klass == f.k
         super == superClass[klass]
     IN  IF super = NULL
         THEN /\ stack' = WithTop(t, [f EXCEPT !.pc = "verify"])
              /\ UNCHANGED <<status, verifyErrorClass, lockVars, exc, ret>>
         ELSE /\ CanLock(t, super)
              /\ IF ~IsVerified(super) /\ ~IsErroneous(super)
                 THEN /\ CanPush(t)
                      /\ lockOwner' = Locked(lockOwner, t, super)
                      /\ lockDepth' = Deeper(lockDepth, super)
                      /\ stack' = Pushed(t, [f EXCEPT !.pc = "superVerified"],
                                         VerifyFrame(super))
                      /\ UNCHANGED <<status, verifyErrorClass, exc, ret>>
                 ELSE VerifySuperDone(t, f, Locked(lockOwner, t, super),
                                      Deeper(lockDepth, super))
  /\ UNCHANGED <<globalVars, klassDesc, klassLoader, clinitThreadId, superClass, tableVars,
                 resolvedTypes, call, clinitInvoked>>
  /\ UNCHANGED <<calls, linkVars>>

\* VerifyClass after VerifyClass(super) returned
VerifyClassSuperVerified(t) ==
  /\ At(t, "VerifyClass", "superVerified")
  /\ VerifySuperDone(t, Top(t), lockOwner, lockDepth)
  /\ UNCHANGED <<globalVars, klassDesc, klassLoader, clinitThreadId, superClass, tableVars,
                 resolvedTypes, call, clinitInvoked>>
  /\ UNCHANGED <<calls, linkVars>>

\* VerifyClass: the status a class without a hard failure ends with
VerifyClassStatusResolved(klass, outcome) == kStatusResolved
VerifyClassStatusVerified(klass, outcome) == kStatusVerified
VerifyClassStatus(klass, outcome) ==
  IF outcome = "kSoftFailure"
  THEN (IF IsCompiler THEN kStatusRetryVerificationAtRuntime ELSE kStatusVerified)
  ELSE (IF superClass[klass] = NULL \/ IsVerified(superClass[klass]) THEN kStatusVerified
        ELSE kStatusRetryVerificationAtRuntime)

\* VerifyClass: verifier_failure at the end, after "Pretend a soft failure
\* occured so that we don't consider the class verified below"
VerifierFailure(klass, outcome) ==
  IF outcome \in {"preverified", "kNoFailure"}
  THEN (IF superClass[klass] = NULL \/ IsVerified(superClass[klass]) THEN "kNoFailure"
        ELSE "kSoftFailure")
  ELSE outcome
\* VerifyClass: if (preverified || verifier_failure == kNoFailure)
\* klass->SetPreverifiedFlagOnAllMethods()
SetPreverifiedFlagOnAllMethods(klass, outcome) ==
  outcome = "preverified" \/ VerifierFailure(klass, outcome) = "kNoFailure"

\* VerifyClass: VerifyClassUsingOatFile and, unless the oat file settles it,
\* verifier::MethodVerifier::VerifyClass; the frame keeps what they said
VerifyClassRun(t) ==
  /\ At(t, "VerifyClass", "verify")
  /\ \E outcome \in VerifyClassUsingOatFile(Top(t).k) :
       stack' = WithTop(t, [Top(t) EXCEPT !.pc = "verified", !.d = outcome])
  /\ verifier_runs' = [verifier_runs EXCEPT ![Top(t).k] = IF @ < 2 THEN @ + 1 ELSE @]
  /\ UNCHANGED <<globalVars, heapVars, lockVars, tableVars, resolvedTypes, exc, ret, call,
                 clinitInvoked>>
  /\ UNCHANGED <<calls, vtableVars, fieldVars, ifaceVars, countVars, dexVars, regVars, rtVars,
                 imgVars, static_values, kAccPreverified>>

\* VerifyClass from the oat file's and the verifier's answer to the end
VerifyClassResult(t) ==
  /\ At(t, "VerifyClass", "verified")
  /\ LET f == Top(t)
         klass == f.k
         super == superClass[klass]
         outcome == f.d
     IN    IF outcome \in {"oatError", "kHardFailure"}
           THEN /\ exc' = [exc EXCEPT ![t] = Throw("VerifyError")]
                /\ status' = [status EXCEPT ![klass] = kStatusError]
                /\ verifyErrorClass' = [verifyErrorClass EXCEPT ![klass] = "VerifyError"]
                /\ lockOwner' = Released(lockOwner, lockDepth, klass)
                /\ lockDepth' = Shallower(lockDepth, klass)
                /\ ReturnVoid(t)
                /\ UNCHANGED <<aborted, kAccPreverified>>
           ELSE IF outcome \in {"preverified", "kNoFailure"} /\ super # NULL
                   /\ ~IsVerified(super)
                   /\ status[super] # kStatusRetryVerificationAtRuntime
           THEN \* CHECK_EQ(super->GetStatus(), kStatusRetryVerificationAtRuntime)
                /\ aborted' = TRUE
                /\ UNCHANGED <<status, verifyErrorClass, lockVars, stack, ret, exc,
                               kAccPreverified>>
           ELSE /\ status' = [status EXCEPT ![klass] = VerifyClassStatus(klass, outcome)]
                /\ lockOwner' = Released(lockOwner, lockDepth, klass)
                /\ lockDepth' = Shallower(lockDepth, klass)
                /\ ReturnVoid(t)
                /\ kAccPreverified' =
                     [kAccPreverified EXCEPT
                        ![klass] = @ \/ SetPreverifiedFlagOnAllMethods(klass, outcome)]
                /\ UNCHANGED <<aborted, verifyErrorClass, exc>>
  /\ UNCHANGED <<IsCompiler, init_done_, klassDesc, klassLoader, clinitThreadId, superClass,
                 tableVars, resolvedTypes, call, clinitInvoked>>
  /\ UNCHANGED <<calls, vtableVars, fieldVars, ifaceVars, countVars, dexVars, regVars, rtVars,
                 imgVars, static_values, verifier_runs>>


\* -------------------------------------------------------- InitializeClass
\* ClassLinker::InitializeClass before the monitor is taken
InitializeClass(t) ==
  /\ At(t, "InitializeClass", "start")
  /\ LET f == Top(t) IN
     IF IsInitialized(f.k)
     THEN Return(t, TRUE)
     ELSE IF ~CanWeInitializeClass(f.k, f.cs, f.cp)
     THEN Return(t, FALSE)
     ELSE /\ stack' = WithTop(t, [f EXCEPT !.pc = "lock"])
          /\ UNCHANGED ret
  /\ UNCHANGED <<globalVars, heapVars, lockVars, tableVars, resolvedTypes, exc, call,
                 clinitInvoked>>
  /\ UNCHANGED <<calls, linkVars>>

\* InitializeClass: "We caught somebody else in the act; was it us?"
InitializingNever(klass, t) == FALSE
InitializingAlways(klass, t) == TRUE
InitializingBySelf(klass, t) == clinitThreadId[klass] = t

\* InitializeClass: klass->SetStatus(kStatusInitializing), "From here out
\* other threads may observe that we're initializing"
StatusUnmarked(klass) == status
StatusInitializing(klass) == [status EXCEPT ![klass] = kStatusInitializing]

\* InitializeClass: the super class has to be initialized first
SuperInitializedAnyway(klass) == FALSE
SuperNotInitialized(klass) == HasSuperClass(klass) /\ ~IsInitialized(superClass[klass])

\* InitializeClass from "If the class is kStatusInitializing" to the release
\* of the monitor; held tells whether the monitor was kept over VerifyClass
InitializeClassCheckInitializing(t, f, held) ==
  LET klass == f.k
      lo == IF held THEN Released(lockOwner, lockDepth, klass) ELSE lockOwner
      ld == IF held THEN Shallower(lockDepth, klass) ELSE lockDepth
  IN  /\ lockOwner' = lo
      /\ lockDepth' = ld
      /\ IF status[klass] = kStatusInitializing
         THEN /\ IF InitializingBySelf(klass, t)
                 THEN Return(t, TRUE)
                 ELSE \* WaitForInitializeClass: AssertNoPendingException, then wait
                      /\ stack' = WithTop(t, [f EXCEPT !.pc = "WaitForInitializeClass"])
                      /\ UNCHANGED ret
              /\ UNCHANGED <<aborted, status, clinitThreadId, exc>>
         ELSE \/ \* ValidateSuperClassDescriptors fails
                 /\ HasSuperClass(klass)
                 /\ klassLoader[klass] # klassLoader[superClass[klass]]
                 /\ exc' = [exc EXCEPT ![t] = Throw("LinkageError")]
                 /\ status' = [status EXCEPT ![klass] = kStatusError]
                 /\ Return(t, FALSE)
                 /\ UNCHANGED <<aborted, clinitThreadId>>
              \/ IF status[klass] # kStatusVerified
                 THEN /\ aborted' = TRUE
                      /\ UNCHANGED <<status, clinitThreadId, exc, stack, ret>>
                 ELSE /\ clinitThreadId' = [clinitThreadId EXCEPT ![klass] = t]
                      /\ status' = StatusInitializing(klass)
                      /\ stack' = WithTop(t, [f EXCEPT !.pc = "super"])
                      /\ UNCHANGED <<aborted, exc, ret>>

\* InitializeClass under the monitor, up to VerifyClass
InitializeClassLocked(t) ==
  /\ At(t, "InitializeClass", "lock")
  /\ LET f == Top(t)
         klass == f.k
     IN  /\ CanLock(t, klass)
         /\ IF IsInitialized(klass)
            THEN /\ Return(t, TRUE)
                 /\ UNCHANGED <<aborted, status, clinitThreadId, lockVars, exc>>
            ELSE IF IsErroneous(klass)
            THEN /\ exc' = [exc EXCEPT ![t] = ThrowEarlierClassFailure(klass)]
                 /\ Return(t, FALSE)
                 /\ UNCHANGED <<aborted, status, clinitThreadId, lockVars>>
            ELSE IF ~IsResolved(klass)
            THEN /\ aborted' = TRUE
                 /\ UNCHANGED <<status, clinitThreadId, lockVars, exc, stack, ret>>
            ELSE IF ~IsVerified(klass)
            THEN /\ CanPush(t)
                 /\ lockOwner' = Locked(lockOwner, t, klass)
                 /\ lockDepth' = Deeper(lockDepth, klass)
                 /\ stack' = Pushed(t, [f EXCEPT !.pc = "verified"], VerifyFrame(klass))
                 /\ UNCHANGED <<aborted, status, clinitThreadId, exc, ret>>
            ELSE InitializeClassCheckInitializing(t, f, FALSE)
  /\ UNCHANGED <<IsCompiler, init_done_, klassDesc, klassLoader, superClass, verifyErrorClass,
                 tableVars, resolvedTypes, call, clinitInvoked>>
  /\ UNCHANGED <<calls, linkVars>>

\* InitializeClass after VerifyClass returned, the monitor still held
InitializeClassVerified(t) ==
  /\ At(t, "InitializeClass", "verified")
  /\ LET f == Top(t)
         klass == f.k
     IN  IF ~IsVerified(klass)
         THEN IF (IsErroneous(klass) /\ exc[t] # NoException)
                 \/ (~IsErroneous(klass) /\ IsCompiler
                     /\ status[klass] = kStatusRetryVerificationAtRuntime)
              THEN /\ lockOwner' = Released(lockOwner, lockDepth, klass)
                   /\ lockDepth' = Shallower(lockDepth, klass)
                   /\ Return(t, FALSE)
                   /\ UNCHANGED <<aborted, status, clinitThreadId, exc>>
              ELSE /\ aborted' = TRUE
                   /\ UNCHANGED <<status, clinitThreadId, lockVars, exc, stack, ret>>
         ELSE InitializeClassCheckInitializing(t, f, TRUE)
  /\ UNCHANGED <<IsCompiler, init_done_, klassDesc, klassLoader, superClass, verifyErrorClass,
                 tableVars, resolvedTypes, call, clinitInvoked>>
  /\ UNCHANGED <<calls, linkVars>>

\* ClassLinker::WaitForInitializeClass after a wakeup that re-acquired the
\* monitor and found the class no longer kStatusInitializing (a wakeup that
\* finds it still initializing goes back to waiting)
SleepsOn(klass) == FALSE
\* WaitForInitializeClass: the wait is over once a wakeup finds the class no
\* longer Initializing ("Spurious wakeup? Go back to waiting.")
WaitIsOver(klass) == status[klass] # kStatusInitializing

WaitForInitializeClass(t) ==
  /\ At(t, "InitializeClass", "WaitForInitializeClass")
  /\ LET f == Top(t)
         klass == f.k
     IN  /\ CanLock(t, klass)
         /\ IF exc[t] # NoException
            THEN /\ exc' = [exc EXCEPT ![t] = WrapExceptionInInitializer(@)]
                 /\ status' = [status EXCEPT ![klass] = kStatusError]
                 /\ Return(t, FALSE)
                 /\ UNCHANGED aborted
            ELSE /\ WaitIsOver(klass)
                 /\ IF status[klass] = kStatusVerified /\ IsCompiler
                    THEN /\ Return(t, FALSE)
                         /\ UNCHANGED <<aborted, exc, status>>
                    ELSE IF IsErroneous(klass)
                    THEN /\ exc' = [exc EXCEPT ![t] = Throw("NoClassDefFoundError")]
                         /\ Return(t, FALSE)
                         /\ UNCHANGED <<aborted, status>>
                    ELSE IF IsInitialized(klass)
                    THEN /\ Return(t, TRUE)
                         /\ UNCHANGED <<aborted, exc, status>>
                    ELSE /\ aborted' = TRUE
                         /\ UNCHANGED <<exc, status, stack, ret>>
  /\ UNCHANGED <<IsCompiler, init_done_, klassDesc, klassLoader, clinitThreadId, superClass,
                 verifyErrorClass, lockVars, tableVars, resolvedTypes, call, clinitInvoked>>
  /\ UNCHANGED <<calls, linkVars>>

\* an InitializeClass that records the outcome with no initializer run
StraightToFinish(k) == "finish"
\* where InitializeClass goes once the super class is dealt with
AfterSuper(k) == IF HasStaticValues(klassDesc[k]) THEN "statics" ELSE "clinit"

\* InitializeClass, "Initialize super classes"
InitializeClassSuper(t) ==
  /\ At(t, "InitializeClass", "super")
  /\ LET f == Top(t)
         klass == f.k
         super_class == superClass[klass]
     IN  IF SuperNotInitialized(klass)
         THEN IF ~f.cp
              THEN /\ aborted' = TRUE
                   /\ UNCHANGED stack
              ELSE /\ CanPush(t)
                   /\ stack' = Pushed(t, [f EXCEPT !.pc = "superInitialized"],
                                      InitFrame(super_class, f.cs, TRUE))
                   /\ UNCHANGED aborted
         ELSE /\ stack' = WithTop(t, [f EXCEPT !.pc = AfterSuper(klass)])
              /\ UNCHANGED aborted
  /\ UNCHANGED <<IsCompiler, init_done_, heapVars, lockVars, tableVars, resolvedTypes, exc,
                 ret, call, clinitInvoked>>
  /\ UNCHANGED <<calls, linkVars>>

\* InitializeClass: "Initialization failed because the super-class is
\* erroneous", klass->SetStatus(kStatusError)
StatusSuperFailed(klass) == [status EXCEPT ![klass] = kStatusError]

\* InitializeClass after InitializeClass(super) returned
InitializeClassSuperInitialized(t) ==
  /\ At(t, "InitializeClass", "superInitialized")
  /\ LET f == Top(t)
         klass == f.k
         super_class == superClass[klass]
     IN  IF ret[t].success
         THEN /\ stack' = WithTop(t, [f EXCEPT !.pc = AfterSuper(klass)])
              /\ UNCHANGED <<aborted, status, ret>>
         ELSE IF ~(IsErroneous(super_class) /\ exc[t] # NoException)
         THEN /\ aborted' = TRUE
              /\ UNCHANGED <<status, stack, ret>>
         ELSE /\ CanLock(t, klass)
              /\ status' = StatusSuperFailed(klass)
              /\ Return(t, FALSE)
              /\ UNCHANGED aborted
  /\ UNCHANGED <<IsCompiler, init_done_, klassDesc, klassLoader, clinitThreadId, superClass,
                 verifyErrorClass, lockVars, tableVars, resolvedTypes, exc, call,
                 clinitInvoked>>
  /\ UNCHANGED <<calls, linkVars>>

\* InitializeClass: the encoded static values (EncodedStaticFieldValueIterator)
InitializeClassStatics(t) ==
  /\ At(t, "InitializeClass", "statics")
  /\ LET f == Top(t) IN
     IF ~f.cs
     THEN /\ aborted' = TRUE
          /\ UNCHANGED <<stack, exc, static_values>>
     ELSE /\ stack' = WithTop(t, [f EXCEPT !.pc = "clinit"])
          /\ static_values' = [static_values EXCEPT ![f.k] = TRUE]
          /\ \/ UNCHANGED exc
             \/ \* ReadValueToField could not resolve or allocate a value
                /\ exc[t] = NoException
                /\ exc' = [exc EXCEPT ![t] = Throw("OutOfMemoryError")]
          /\ UNCHANGED aborted
  /\ UNCHANGED <<IsCompiler, init_done_, heapVars, lockVars, tableVars, resolvedTypes, ret,
                 call, clinitInvoked>>
  /\ UNCHANGED <<calls, vtableVars, fieldVars, ifaceVars, countVars, dexVars, regVars, rtVars,
                 imgVars, verifier_runs, kAccPreverified>>

\* InitializeClass: clinit->Invoke, entry into the static initializer
InitializeClassClinit(t) ==
  /\ At(t, "InitializeClass", "clinit")
  /\ LET f == Top(t) IN
     IF ~FindClassInitializer(klassDesc[f.k])
     THEN /\ stack' = WithTop(t, [f EXCEPT !.pc = "finish"])
          /\ UNCHANGED <<aborted, clinitInvoked>>
     ELSE IF ~f.cs
     THEN /\ aborted' = TRUE
          /\ UNCHANGED <<stack, clinitInvoked>>
     ELSE /\ stack' = WithTop(t, [f EXCEPT !.pc = "invoke"])
          /\ clinitInvoked' = [clinitInvoked EXCEPT ![f.k] = IF @ < 2 THEN @ + 1 ELSE @]
          /\ UNCHANGED aborted
  /\ UNCHANGED <<IsCompiler, init_done_, heapVars, lockVars, tableVars, resolvedTypes, exc,
                 ret, call>>
  /\ UNCHANGED <<calls, linkVars>>

\* the body of a static initializer: it may use other classes, which
\* initializes them (EnsureInitialized), it may throw, and it returns
ClinitBody(t) ==
  /\ At(t, "InitializeClass", "invoke")
  /\ LET f == Top(t) IN
     \/ /\ exc[t] = NoException
        /\ CanPush(t)
        /\ \E c \in class_table_ : \E fields \in BOOLEAN, parents \in BOOLEAN :
             /\ IsResolved(c)
             /\ ~IsInitialized(c)
             /\ stack' = Pushed(t, f, InitFrame(c, fields, parents))
        /\ UNCHANGED exc
     \/ /\ exc[t] = NoException
        /\ \E e \in {"UserException", "UserError"} : exc' = [exc EXCEPT ![t] = Throw(e)]
        /\ stack' = WithTop(t, [f EXCEPT !.pc = "finish"])
     \/ /\ stack' = WithTop(t, [f EXCEPT !.pc = "finish"])
        /\ UNCHANGED exc
     \/ \* the initializer catches what a class it used threw
        /\ exc[t] # NoException
        /\ exc' = [exc EXCEPT ![t] = NoException]
        /\ stack' = WithTop(t, [f EXCEPT !.pc = "finish"])
  /\ UNCHANGED <<globalVars, heapVars, lockVars, tableVars, resolvedTypes, ret, call,
                 clinitInvoked>>
  /\ UNCHANGED <<calls, linkVars>>

\* InitializeClass: back under the monitor, record the outcome
InitializeClassFinish(t) ==
  /\ At(t, "InitializeClass", "finish")
  /\ LET f == Top(t)
         klass == f.k
     IN  /\ CanLock(t, klass)
         /\ IF exc[t] # NoException
            THEN /\ exc' = [exc EXCEPT ![t] = WrapExceptionInInitializer(@)]
                 /\ status' = [status EXCEPT ![klass] = kStatusError]
                 /\ Return(t, FALSE)
            ELSE /\ status' = [status EXCEPT ![klass] = kStatusInitialized]
                 /\ Return(t, TRUE)
                 /\ UNCHANGED exc
  /\ UNCHANGED <<globalVars, klassDesc, klassLoader, clinitThreadId, superClass,
                 verifyErrorClass, lockVars, tableVars, resolvedTypes, call, clinitInvoked>>
  /\ UNCHANGED <<calls, linkVars>>


\* ------------------------------------------------------------- bootstrap
BootFrame(fn, pc) == Frame(fn, pc, NoDesc, NoDesc, NULL, NULL, FALSE, FALSE)
NoCall == [op |-> "none", d |-> NoDesc, l |-> NoDesc, k |-> NULL, cs |-> FALSE, cp |-> FALSE]

\* ClassLinker::InitFromCompiler: java_lang_Object is allocated by hand and
\* marked kStatusLoaded so that the array classes can be built on it
InitFromCompiler(t) ==
  /\ At(t, "InitFromCompiler", "alloc")
  /\ klassDesc' = [klassDesc EXCEPT ![GetClassRoot] = "Obj"]
  /\ status' = [status EXCEPT ![GetClassRoot] = kStatusLoaded]
  /\ stack' = WithTop(t, [Top(t) EXCEPT !.pc = "FindSystemClass"])
  /\ UNCHANGED <<globalVars, klassLoader, clinitThreadId, superClass, verifyErrorClass,
                 lockVars, tableVars, resolvedTypes, exc, ret, call, clinitInvoked>>
  /\ UNCHANGED <<calls, linkVars>>

\* InitFromCompiler: "Object, String and DexCache need to be rerun through
\* FindSystemClass to finish init"
InitFromCompilerRerun(t) ==
  /\ At(t, "InitFromCompiler", "FindSystemClass")
  /\ status' = [status EXCEPT ![GetClassRoot] = kStatusNotReady]
  /\ stack' = Pushed(t, [Top(t) EXCEPT !.pc = "FinishInit"],
                     FindFrame("LookupClass", "Obj", BootLoader))
  /\ UNCHANGED <<globalVars, klassDesc, klassLoader, clinitThreadId, superClass,
                 verifyErrorClass, lockVars, tableVars, resolvedTypes, exc, ret, call,
                 clinitInvoked>>
  /\ UNCHANGED <<calls, linkVars>>

\* InitFromCompiler: CHECK_EQ(java_lang_Object.get(), Object_class), FinishInit
FinishInit(t) ==
  /\ At(t, "InitFromCompiler", "FinishInit")
  /\ IF ret[t].class # GetClassRoot
     THEN /\ aborted' = TRUE
          /\ UNCHANGED <<init_done_, stack>>
     ELSE /\ init_done_' = TRUE
          /\ stack' = Popped(t)
          /\ UNCHANGED aborted
  /\ UNCHANGED <<IsCompiler, heapVars, lockVars, tableVars, resolvedTypes, exc, ret, call,
                 clinitInvoked>>
  /\ UNCHANGED <<calls, linkVars>>

\* ClassLinker::InitFromImage: the classes of the image are reachable through
\* the image dex caches only
InitFromImage(t) ==
  /\ At(t, "InitFromImage", "start")
  /\ dex_cache_image_class_lookup_required_' = TRUE
  /\ init_done_' = TRUE
  /\ stack' = Popped(t)
  /\ UNCHANGED <<IsCompiler, aborted, heapVars, lockVars, class_table_, resolvedTypes, exc,
                 ret, call, clinitInvoked>>
  /\ UNCHANGED <<calls, linkVars>>

\* ClassLinker::MoveImageClassesToClassTable
MoveImageClassesToClassTable(t) ==
  /\ ~aborted
  /\ init_done_
  /\ stack[t] = <<>>
  /\ dex_cache_image_class_lookup_required_
  /\ LET types == {resolvedTypes["boot.dex"][d] : d \in Descs} \ {NULL}
         clash == {klass \in types :
                     LookupClassFromTableLocked(klassDesc[klass], BootLoader)
                       \notin {NULL, klass}}
     IN  IF clash # {}
         THEN /\ aborted' = TRUE
              /\ UNCHANGED tableVars
         ELSE /\ class_table_' = class_table_ \cup types
              /\ dex_cache_image_class_lookup_required_' = FALSE
              /\ UNCHANGED aborted
  /\ UNCHANGED <<IsCompiler, init_done_, heapVars, lockVars, resolvedTypes, threadVars,
                 clinitInvoked>>
  /\ UNCHANGED <<calls, linkVars>>

\* ------------------------------------------------- calls into the linker
Idle(t) ==
  /\ ~aborted
  /\ init_done_
  /\ stack[t] = <<>>
  /\ calls < MaxCalls

\* classes a caller can hold a reference to
Linked == {k \in Allocated : IsResolved(k) \/ (IsErroneous(k) /\ k \in class_table_)}

\* a thread calls FindClass(descriptor, class_loader)
CallFindClass(t) ==
  /\ Idle(t)
  /\ calls' = calls + 1
  /\ \E d \in Descs \cup ArrayDescs, l \in Loaders :
       /\ stack' = [stack EXCEPT ![t] = <<FindFrame("LookupClass", d, l)>>]
       /\ call' = [call EXCEPT ![t] = [NoCall EXCEPT !.op = "FindClass", !.d = d, !.l = l]]
  /\ exc' = [exc EXCEPT ![t] = NoException]
  /\ ret' = [ret EXCEPT ![t] = NoResult]
  /\ UNCHANGED <<globalVars, heapVars, lockVars, tableVars, resolvedTypes, clinitInvoked>>
  /\ UNCHANGED linkVars

\* ClassLinker::EnsureInitialized
EnsureInitialized(t) ==
  /\ Idle(t)
  /\ calls' = calls + 1
  /\ \E c \in Linked : \E can_init_fields \in BOOLEAN, can_init_parents \in BOOLEAN :
       /\ stack' = [stack EXCEPT ![t] = <<InitFrame(c, can_init_fields, can_init_parents)>>]
       /\ call' = [call EXCEPT ![t] = [NoCall EXCEPT !.op = "EnsureInitialized", !.k = c,
                                         !.cs = can_init_fields, !.cp = can_init_parents]]
  /\ exc' = [exc EXCEPT ![t] = NoException]
  /\ ret' = [ret EXCEPT ![t] = NoResult]
  /\ UNCHANGED <<globalVars, heapVars, lockVars, tableVars, resolvedTypes, clinitInvoked>>
  /\ UNCHANGED linkVars

\* a thread (the compiler driver) calls VerifyClass(klass)
CallVerifyClass(t) ==
  /\ Idle(t)
  /\ calls' = calls + 1
  /\ \E c \in Linked :
       /\ stack' = [stack EXCEPT ![t] = <<VerifyFrame(c)>>]
       /\ call' = [call EXCEPT ![t] = [NoCall EXCEPT !.op = "VerifyClass", !.k = c]]
  /\ exc' = [exc EXCEPT ![t] = NoException]
  /\ ret' = [ret EXCEPT ![t] = NoResult]
  /\ UNCHANGED <<globalVars, heapVars, lockVars, tableVars, resolvedTypes, clinitInvoked>>
  /\ UNCHANGED linkVars


\* ----------------------------------------------------- LinkVirtualMethods
\* A chain of classes: class 0 is the root (java.lang.Object, no super
\* class), class k + 1 extends class k.  A method is named by its declaring
\* class and its name; the name stands for name and signature.
Levels == 0..MaxDepth
Names == {"foo", "bar"}
Packages == {"p", "q"}
MaxUint16 == 65535
NoIndex == -1

MethodsNamed(n) == [name : {n}, access : {"public", "package"}, final : BOOLEAN]
\* the virtual methods a class can declare, in declaration order
VirtualMethods ==
  {<<>>} \cup {<<m>> : m \in MethodsNamed("foo") \cup MethodsNamed("bar")}
         \cup {<<a, b>> : a \in MethodsNamed("foo"), b \in MethodsNamed("bar")}
ClassDefs == [pkg : Packages, methods : VirtualMethods]
MethodIds == Levels \X Names

NumVirtualMethods(klass) == Len(linkClasses[klass].methods)
GetVirtualMethodDuringLinking(klass, i) == <<klass, linkClasses[klass].methods[i].name>>
MethodOf(m) ==
  LET ms == linkClasses[m[1]].methods
  IN  ms[CHOOSE i \in 1..Len(ms) : ms[i].name = m[2]]
IsFinal(m) == MethodOf(m).final
\* a comparison that takes every two methods for the same
AnyNameAndSignature(a, b) == TRUE
HasSameNameAndSignature(a, b) == a[2] = b[2]
\* mirror::Class::CanAccessMember for a member of a super class that is not
\* private: public, or declared in the same package
CanAccessMember(klass, m) ==
  \/ klass = m[1]
  \/ MethodOf(m).access = "public"
  \/ linkClasses[klass].pkg = linkClasses[m[1]].pkg

\* a scan of the vtable from its last slot down: the last slot that holds an
\* accessible method of the same name and signature, Len(vt) if none
ScanVTableFromEnd(klass, vt, local_method, j) ==
  LET found == {k \in j..(Len(vt) - 1) :
                  /\ HasSameNameAndSignature(local_method, vt[k + 1])
                  /\ CanAccessMember(klass, vt[k + 1])}
  IN  IF found = {} THEN Len(vt) ELSE CHOOSE k \in found : \A l \in found : l <= k

\* the inner loop of LinkVirtualMethods: the first slot at or after j that
\* holds an accessible method of the same name and signature, Len(vt) if none
RECURSIVE ScanVTable(_, _, _, _)
ScanVTable(klass, vt, local_method, j) ==
  IF j = Len(vt) THEN j
  ELSE IF HasSameNameAndSignature(local_method, vt[j + 1])
          /\ CanAccessMember(klass, vt[j + 1])
       THEN j
       ELSE ScanVTable(klass, vt, local_method, j + 1)

\* the outer loop of LinkVirtualMethods from declared method i on
RECURSIVE LinkLocalMethods(_, _, _, _)
LinkLocalMethods(klass, vt, idx, i) ==
  IF i > NumVirtualMethods(klass)
  THEN [vtable |-> vt, index |-> idx,
        error |-> IF Len(vt) > MaxUint16 THEN "ClassFormatError" ELSE "none"]
  ELSE LET local_method == GetVirtualMethodDuringLinking(klass, i)
           j == ScanVTable(klass, vt, local_method, 0)
       IN  IF j < Len(vt)
           THEN IF IsFinal(vt[j + 1])
                THEN [vtable |-> vt, index |-> idx, error |-> "LinkageError"]
                ELSE LinkLocalMethods(klass, [vt EXCEPT ![j + 1] = local_method],
                                      [idx EXCEPT ![local_method] = j], i + 1)
           ELSE LinkLocalMethods(klass, Append(vt, local_method),
                                 [idx EXCEPT ![local_method] = Len(vt)], i + 1)

\* the root class: a fresh vtable of its own virtual methods
RootVTable(klass) ==
  [vtable |-> [i \in 1..NumVirtualMethods(klass) |-> GetVirtualMethodDuringLinking(klass, i)],
   index |-> [m \in MethodIds |->
                IF m[1] = klass /\ \E i \in 1..NumVirtualMethods(klass) :
                                      GetVirtualMethodDuringLinking(klass, i) = m
                THEN (CHOOSE i \in 1..NumVirtualMethods(klass) :
                        GetVirtualMethodDuringLinking(klass, i) = m) - 1
                ELSE methodIndex[m]],
   error |-> IF NumVirtualMethods(klass) > MaxUint16 THEN "ClassFormatError" ELSE "none"]

\* ClassLinker::LinkVirtualMethods
LinkVirtualMethods(klass) ==
  /\ linked[klass] = "no"
  /\ IF klass = 0 THEN TRUE ELSE linked[klass - 1] = "yes"
  /\ LET r == IF klass = 0 THEN RootVTable(klass)
              ELSE LinkLocalMethods(klass, vtable[klass - 1], methodIndex, 1)
     IN  /\ methodIndex' = r.index
         /\ vtable' = IF r.error = "none" THEN [vtable EXCEPT ![klass] = r.vtable] ELSE vtable
         /\ linked' = [linked EXCEPT ![klass] = IF r.error = "none" THEN "yes" ELSE r.error]
  /\ UNCHANGED <<linkClasses, lifecycleVars, fieldVars, ifaceVars, countVars, dexVars, doneVars, imgVars, regVars, rtVars>>

\* ------------------------------------------------------------- LinkFields
\* One class with its static and its instance field arrays.  A field is named
\* by its name and its type: a class declares no two fields of the same name
\* and type.
MaxFields == 4
MaxLinkFields == 2
kPrimNot == "L"
kPrimLong == "J"
kPrimDouble == "D"
kPrimInt == "I"
kPrimFloat == "F"
FieldNames == {"a", "b", "c", "referent"}
\* the fields a class can declare: a reference, a long or an int of each
\* name, and a float that shares its name with an int
ArtFields == [name : FieldNames, type : {kPrimNot, kPrimLong, kPrimInt}]
               \cup [name : {"a"}, type : {kPrimFloat}]
ReferenceDescriptor == "Ljava/lang/ref/Reference;"
FieldsDescriptors == {ReferenceDescriptor, "LC;"}
NoOffset == -1
NoSuperClass == -1
SizeOfUint32 == 4
SizeOfUint64 == 8
\* sizeof(mirror::Object), the object size of java.lang.Object
SizeOfObject == 8
\* the sizes of the super classes tried: none, java.lang.Object, one more word
SuperObjectSizes == {NoSuperClass, SizeOfObject, SizeOfObject + SizeOfUint32}
\* mirror::Class::FieldsOffset() = sizeof(mirror::Class): a multiple of 4 whose
\* value the build decides; both alignments are tried
ClassFieldsOffsets == {96, 100}

\* strcmp(name1, name2) < 0 on the names above
StrCmpLess(name1, name2) ==
  LET rank == [n \in FieldNames |->
                 CASE n = "a" -> 1 [] n = "b" -> 2 [] n = "c" -> 3 [] n = "referent" -> 4]
  IN  rank[name1] < rank[name2]

IsPrimitiveField(f) == f.type # kPrimNot
Is64BitField(f) == f.type = kPrimLong \/ f.type = kPrimDouble
FieldSize(f) == IF Is64BitField(f) THEN SizeOfUint64 ELSE SizeOfUint32
AlwaysAligned(x) == TRUE
IsAligned8(x) == x % 8 = 0

\* LinkFieldsComparator::operator()
LinkFieldsComparator(field1, field2) ==
  LET order1 == IF ~IsPrimitiveField(field1) THEN 0 ELSE IF Is64BitField(field1) THEN 1 ELSE 2
      order2 == IF ~IsPrimitiveField(field2) THEN 0 ELSE IF Is64BitField(field2) THEN 1 ELSE 2
  IN  IF field1.type # field2.type /\ order1 # order2
      THEN order1 < order2
      ELSE StrCmpLess(field1.name, field2.name)

\* std::sort(grouped_and_sorted_fields, LinkFieldsComparator()): every
\* arrangement of the fields in which no field is out of order; fields the
\* comparator does not tell apart may come out either way
RECURSIVE SortedArrangements(_)
SortedArrangements(S) ==
  IF S = {} THEN {<<>>}
  ELSE UNION {{<<f>> \o q : q \in SortedArrangements(S \ {f})} :
                f \in {f \in S : \A g \in S : ~LinkFieldsComparator(g, f)}}
StdSort(fields) == SortedArrangements({fields[i] : i \in 1..Len(fields)})

\* the loop "References should be at the front": the fields popped from the
\* front of the deque before the first primitive one
RECURSIVE NumLeadingReferences(_)
NumLeadingReferences(q) ==
  IF q = <<>> \/ IsPrimitiveField(Head(q)) THEN 0
  ELSE 1 + NumLeadingReferences(Tail(q))

\* the final loop: the offsets given to the fields left in the deque
RECURSIVE AssignOffsets(_, _)
AssignOffsets(q, field_offset) ==
  IF q = <<>> THEN <<>>
  ELSE <<field_offset>> \o AssignOffsets(Tail(q), field_offset + FieldSize(Head(q)))

RECURSIVE SizeOfFields(_)
SizeOfFields(q) == IF q = <<>> THEN 0 ELSE FieldSize(Head(q)) + SizeOfFields(Tail(q))

\* a layout that starts where the previous one ended
FieldsBaseAfterSize(is_static) ==
  IF is_static THEN class_size_ ELSE object_size_
\* the offset the layout starts at
FieldsBase(is_static) ==
  IF is_static THEN fieldsKlass.fields_offset
  ELSE IF fieldsKlass.super_object_size # NoSuperClass THEN fieldsKlass.super_object_size
       ELSE 0

NeverLie(is_static) == FALSE
\* "We lie to the GC about the java.lang.ref.Reference.referent field"
LieAboutReferent(is_static) ==
  ~is_static /\ fieldsKlass.descriptor = ReferenceDescriptor

\* LinkFields from the sorted deque on: the array, the offsets (in array
\* order), the reference count and the size it leaves, and whether each CHECK
\* on the way held
LinkFieldsLayout(is_static, q) ==
  LET base == FieldsBase(is_static)
      num_fields == Len(q)
      refs == NumLeadingReferences(q)
      after_refs == base + refs * SizeOfUint32
      deque == SubSeq(q, refs + 1, num_fields)
      unaligned == refs # num_fields /\ ~IsAligned8(after_refs)
      narrow == {i \in 1..Len(deque) : ~Is64BitField(deque[i])}
      i == IF narrow = {} THEN 0 ELSE CHOOSE m \in narrow : \A o \in narrow : m <= o
      shuffled == IF unaligned /\ i # 0 THEN <<deque[i]>> ELSE <<>>
      rest == IF unaligned /\ i # 0
              THEN SubSeq(deque, 1, i - 1) \o SubSeq(deque, i + 1, Len(deque))
              ELSE deque
      aligned == IF unaligned THEN after_refs + SizeOfUint32 ELSE after_refs
      array == SubSeq(q, 1, refs) \o shuffled \o rest
      lie == LieAboutReferent(is_static)
  IN  [fields |-> array,
       offsets |-> [j \in 1..refs |-> base + (j - 1) * SizeOfUint32]
                     \o (IF shuffled # <<>> THEN <<after_refs>> ELSE <<>>)
                     \o AssignOffsets(rest, aligned),
       num_reference_fields |-> IF lie THEN refs - 1 ELSE refs,
       size |-> aligned + SizeOfFields(rest),
       checks |-> /\ \A j \in 1..Len(deque) : IsPrimitiveField(deque[j])
                  /\ lie => /\ refs = num_fields
                            /\ num_fields > 0
                            /\ q[num_fields].name = "referent"]

\* a size that adds the fields up with no word for the alignment
SizeOfClassUnpadded(static_fields) == fieldsKlass.fields_offset + SizeOfFields(static_fields)
\* ClassLinker::SizeOfClass on the static fields of the class definition
SizeOfClass(static_fields) ==
  LET all == 1..Len(static_fields)
      num_ref == Cardinality({i \in all : ~IsPrimitiveField(static_fields[i])})
      num_64 == Cardinality({i \in all : Is64BitField(static_fields[i])})
      num_32 == Len(static_fields) - num_ref - num_64
      size == fieldsKlass.fields_offset + num_ref * SizeOfUint32
      pad == num_64 # 0 /\ ~IsAligned8(size)
  IN  (IF pad THEN size + SizeOfUint32 ELSE size)
        + num_64 * SizeOfUint64
        + (IF pad /\ num_32 # 0 THEN num_32 - 1 ELSE num_32) * SizeOfUint32

\* ClassLinker::LinkFields with the outcome q of the sort; size_check is the
\* CHECK the caller makes on the size
LinkFields(is_static, q, size_check) ==
  \E r \in {LinkFieldsLayout(is_static, q)} :
    IF /\ r.checks
       /\ is_static \/ object_size_ = 0 \/ object_size_ = r.size
       /\ size_check => r.size = class_size_
    THEN /\ sfields' = IF is_static THEN r.fields ELSE sfields
         /\ ifields' = IF is_static THEN ifields ELSE r.fields
         /\ fieldOffset' = [f \in ArtFields |->
                              IF \E j \in 1..Len(r.fields) : r.fields[j] = f
                              THEN r.offsets[CHOOSE j \in 1..Len(r.fields) : r.fields[j] = f]
                              ELSE fieldOffset[f]]
         /\ num_reference_fields_' =
              [num_reference_fields_ EXCEPT ![is_static] = r.num_reference_fields]
         /\ class_size_' = IF is_static THEN r.size ELSE class_size_
         /\ object_size_' = IF is_static THEN object_size_ ELSE r.size
         /\ UNCHANGED aborted
    ELSE /\ aborted' = TRUE
         /\ UNCHANGED <<sfields, ifields, fieldOffset, num_reference_fields_, class_size_,
                        object_size_>>

\* ClassLinker::LinkInstanceFields
LinkInstanceFields ==
  /\ ~aborted
  /\ linkFieldsRuns[FALSE] < MaxLinkFields
  /\ \E q \in StdSort(ifields) : LinkFields(FALSE, q, FALSE)
  /\ linkFieldsRuns' = [linkFieldsRuns EXCEPT ![FALSE] = @ + 1]
  /\ UNCHANGED <<fieldsKlass, vtableVars, ifaceVars, countVars, dexVars, doneVars, imgVars, regVars, rtVars>>
  /\ UNCHANGED <<IsCompiler, init_done_, heapVars, lockVars, tableVars, resolvedTypes,
                 threadVars, clinitInvoked, calls>>

\* ClassLinker::LinkStaticFields
LinkStaticFields ==
  /\ ~aborted
  /\ linkFieldsRuns[TRUE] < MaxLinkFields
  /\ \E q \in StdSort(sfields) : LinkFields(TRUE, q, TRUE)
  /\ linkFieldsRuns' = [linkFieldsRuns EXCEPT ![TRUE] = @ + 1]
  /\ UNCHANGED <<fieldsKlass, vtableVars, ifaceVars, countVars, dexVars, doneVars, imgVars, regVars, rtVars>>
  /\ UNCHANGED <<IsCompiler, init_done_, heapVars, lockVars, tableVars, resolvedTypes,
                 threadVars, clinitInvoked, calls>>

\* ---------------------------------------------------- LinkInterfaceMethods
\* Two interfaces, I and J (J may extend I), and two classes, A and B
\* extends A, all of one package and with no final method.  A method is a
\* record of its declaring class, name (which stands for name and
\* signature), flags and dex method index.
MaxDirectInterfaces == 2
\* ClassLinker::kImtSize, scaled down so that interface methods share slots
kImtSize == 2
IfInterfaces == {"I", "J"}
IfClasses == {"A", "B"}
IfKlasses == IfInterfaces \cup IfClasses
NoKlass == "none"
ImtSlots == 0..(kImtSize - 1)
ArtMethod(declaring, name, public, abstract, idx) ==
  [declaring |-> declaring, name |-> name, public |-> public, abstract |-> abstract,
   dex_method_index |-> idx, miranda |-> FALSE]
\* an empty slot of a freshly allocated imtable
NullMethod == ArtMethod(NoKlass, "null", FALSE, FALSE, 0)
\* Runtime::Current()->GetImtConflictMethod()
ImtConflictMethod == ArtMethod("Runtime", "imt-conflict", FALSE, FALSE, 0)
\* Runtime::Current()->GetDefaultImt(): "all conflicts by default"
DefaultImt == [s \in ImtSlots |-> ImtConflictMethod]

IsInterface(klass) == ifDefs[klass].is_interface
SuperOf(klass) == ifDefs[klass].super_class
DirectInterfaces(klass) == ifDefs[klass].interfaces
Contains(seq, x) == \E i \in 1..Len(seq) : seq[i] = x

\* the slot of the vtable a method of that name sits in, scanning from
\* `from` in direction `step`; 0 if there is none
RECURSIVE FindInVTable(_, _, _, _)
FindInVTable(vt, name, from, step) ==
  IF from < 1 \/ from > Len(vt) THEN 0
  ELSE IF vt[from].name = name THEN from
       ELSE FindInVTable(vt, name, from + step, step)

\* klass->GetVTableDuringLinking() as LinkVirtualMethods leaves it: the super
\* class's vtable, each declared method put in the slot of the method of the
\* same name or else appended
RECURSIVE OverrideOrAppend(_, _, _)
OverrideOrAppend(vt, methods, i) ==
  IF i > Len(methods) THEN vt
  ELSE LET j == FindInVTable(vt, methods[i].name, 1, 1)
       IN  OverrideOrAppend(IF j # 0 THEN [vt EXCEPT ![j] = methods[i]]
                            ELSE Append(vt, methods[i]), methods, i + 1)
GetVTableDuringLinking(klass) ==
  OverrideOrAppend(IF SuperOf(klass) # NoKlass THEN ifVTable[SuperOf(klass)] ELSE <<>>,
                   ifDefs[klass].methods, 1)

\* "Check if interface is already in iftable"
NeverInIfTable(tbl, interface) == FALSE
AlreadyInIfTable(tbl, interface) == Contains(tbl, interface)

\* "Add this interface's non-duplicate super-interfaces"
RECURSIVE AddSuperInterfaces(_, _, _)
AddSuperInterfaces(tbl, super_interfaces, j) ==
  IF j > Len(super_interfaces) THEN tbl
  ELSE AddSuperInterfaces(IF AlreadyInIfTable(tbl, super_interfaces[j]) THEN tbl
                          ELSE Append(tbl, super_interfaces[j]),
                          super_interfaces, j + 1)

\* the interfaces an iftable lists, in order
InterfacesOf(tbl) == [i \in 1..Len(tbl) |-> tbl[i].interface]

\* "Flatten the interface inheritance hierarchy": the interfaces listed after
\* direct interface i has been handled, or the error thrown
RECURSIVE FlattenInterfaces(_, _, _)
FlattenInterfaces(klass, tbl, i) ==
  IF i > Len(DirectInterfaces(klass)) THEN [interfaces |-> tbl, error |-> "none"]
  ELSE LET interface == DirectInterfaces(klass)[i]
       IN  IF ~IsInterface(interface)
           THEN [interfaces |-> tbl, error |-> "IncompatibleClassChangeError"]
           ELSE IF AlreadyInIfTable(tbl, interface)
           THEN FlattenInterfaces(klass, tbl, i + 1)
           ELSE FlattenInterfaces(klass,
                  AddSuperInterfaces(Append(tbl, interface),
                                     InterfacesOf(iftable[interface]), 1),
                  i + 1)

\* "Place method in imt if entry is empty, place conflict otherwise"
PlaceAlways(entry, vtable_method) == vtable_method
PlaceInImt(entry, vtable_method) ==
  IF entry = NullMethod THEN vtable_method ELSE ImtConflictMethod

\* the loop over miranda_list: the first miranda method of that name and
\* signature, 0 if there is none
NoMiranda(miranda_list, name) == 0
FindMiranda(miranda_list, name) ==
  LET listed == {m \in 1..Len(miranda_list) : miranda_list[m].name = name}
  IN  IF listed = {} THEN 0 ELSE CHOOSE m \in listed : \A o \in listed : m <= o

\* the loops over the interfaces of the iftable and their methods, from
\* method j of interface i on.  st holds the method arrays, the imtable, the
\* miranda list, imtable_changed and the error thrown.
RECURSIVE LinkInterfaceMethod(_, _, _, _, _, _)
LinkInterfaceMethod(klass, tbl, vt, st, i, j) ==
  IF i > Len(tbl) THEN st
  ELSE IF j > Len(ifDefs[tbl[i]].methods)
  THEN LinkInterfaceMethod(klass, tbl, vt, st, i + 1, 1)
  ELSE LET interface_method == ifDefs[tbl[i]].methods[j]
           k == FindInVTable(vt, interface_method.name, Len(vt), -1)
           imt_index == interface_method.dex_method_index % kImtSize
           mir == FindMiranda(st.miranda_list, interface_method.name)
           miranda_method ==
             IF mir # 0 THEN st.miranda_list[mir]
             ELSE [interface_method EXCEPT !.miranda = TRUE]
       IN  IF k # 0
           THEN IF ~vt[k].abstract /\ ~vt[k].public
                THEN [st EXCEPT !.error = "IllegalAccessError"]
                ELSE LinkInterfaceMethod(klass, tbl, vt,
                       [st EXCEPT !.method_arrays[i] = Append(@, vt[k]),
                                  !.imtable[imt_index] = PlaceInImt(@, vt[k]),
                                  !.imtable_changed = @ \/ st.imtable[imt_index] = NullMethod],
                       i, j + 1)
           ELSE LinkInterfaceMethod(klass, tbl, vt,
                  [st EXCEPT !.method_arrays[i] = Append(@, miranda_method),
                             !.miranda_list = IF mir # 0 THEN @
                                              ELSE Append(@, miranda_method)],
                  i, j + 1)

\* the sum of interface->GetIfTableCount() over the direct interfaces from i on
RECURSIVE IfTableCounts(_, _)
IfTableCounts(klass, i) ==
  IF i > Len(DirectInterfaces(klass)) THEN 0
  ELSE Len(iftable[DirectInterfaces(klass)[i]]) + IfTableCounts(klass, i + 1)

\* ClassLinker::LinkInterfaceMethods: what it leaves in klass
LinkInterfaceMethodsResult(klass) ==
  LET vt == GetVTableDuringLinking(klass)
      super_iftable == IF SuperOf(klass) # NoKlass THEN iftable[SuperOf(klass)] ELSE <<>>
      super_ifcount == Len(super_iftable)
      num_interfaces == Len(DirectInterfaces(klass))
      ifcount == super_ifcount + num_interfaces + IfTableCounts(klass, 1)
      has_non_marker_interface ==
        \E i \in 1..super_ifcount : Len(super_iftable[i].methods) > 0
      flat == FlattenInterfaces(klass, InterfacesOf(super_iftable), 1)
      start == [method_arrays |-> [i \in 1..Len(flat.interfaces) |-> <<>>],
                imtable |-> [s \in ImtSlots |-> NullMethod],
                miranda_list |-> <<>>,
                imtable_changed |-> FALSE,
                error |-> "none"]
      st == LinkInterfaceMethod(klass, flat.interfaces, vt, start, 1, 1)
      bare == [i \in 1..Len(flat.interfaces) |->
                 [interface |-> flat.interfaces[i], methods |-> <<>>]]
  IN  IF ifcount = 0
      THEN [iftable |-> <<>>, table |-> NoKlass, imtable |-> DefaultImt, vtable |-> vt,
            virtuals |-> ifVirtuals[klass], error |-> "none"]
      ELSE IF ifcount = super_ifcount /\ ~has_non_marker_interface
      THEN [iftable |-> super_iftable, table |-> ifTableObject[SuperOf(klass)],
            imtable |-> DefaultImt, vtable |-> vt,
            virtuals |-> ifVirtuals[klass], error |-> "none"]
      ELSE IF flat.error # "none"
      THEN [iftable |-> <<>>, table |-> NoKlass, imtable |-> DefaultImt, vtable |-> vt,
            virtuals |-> ifVirtuals[klass], error |-> flat.error]
      ELSE IF IsInterface(klass)
      THEN [iftable |-> bare, table |-> klass, imtable |-> DefaultImt, vtable |-> vt,
            virtuals |-> ifVirtuals[klass], error |-> "none"]
      ELSE [iftable |-> [i \in 1..Len(bare) |->
                           [bare[i] EXCEPT !.methods = st.method_arrays[i]]],
            table |-> klass,
            imtable |-> IF st.error = "none" /\ st.imtable_changed
                        THEN [s \in ImtSlots |->
                                IF st.imtable[s] = NullMethod THEN ImtConflictMethod
                                ELSE st.imtable[s]]
                        ELSE DefaultImt,
            vtable |-> IF st.error = "none" THEN vt \o st.miranda_list ELSE vt,
            virtuals |-> IF st.error = "none" THEN ifVirtuals[klass] \o st.miranda_list
                         ELSE ifVirtuals[klass],
            error |-> st.error]

\* ClassLinker::LinkMethods on a class whose super class and direct
\* interfaces are linked
LinkMethods(klass) ==
  /\ ifLinked[klass] = "no"
  /\ SuperOf(klass) # NoKlass => ifLinked[SuperOf(klass)] = "yes"
  /\ \A i \in 1..Len(DirectInterfaces(klass)) : ifLinked[DirectInterfaces(klass)[i]] = "yes"
  /\ LET r == LinkInterfaceMethodsResult(klass)
     IN  /\ iftable' = [iftable EXCEPT ![klass] = r.iftable]
         /\ imtable' = [imtable EXCEPT ![klass] = r.imtable]
         /\ ifVTable' = [ifVTable EXCEPT ![klass] = r.vtable]
         /\ ifVirtuals' = [ifVirtuals EXCEPT ![klass] = r.virtuals]
         /\ ifTableObject' = [ifTableObject EXCEPT ![klass] = r.table]
         /\ ifLinked' = [ifLinked EXCEPT ![klass] = IF r.error = "none" THEN "yes" ELSE r.error]
  /\ UNCHANGED <<ifDefs, lifecycleVars, vtableVars, fieldVars, countVars, dexVars, doneVars, imgVars, regVars, rtVars>>

\* ------------------------------------------------- the length of a vtable
\* LinkMethods on one class by the numbers: the length of its super class's
\* vtable, how many virtual methods it declares, how many of these override
\* a slot of the super class, and how many interface methods it leaves
\* unimplemented.  The method index and the slot are kept for each method
\* the class adds to the vtable.
MaxDeclared == 2
MaxMiranda == 2
\* the lengths the vtable of a resolved super class can have
SuperVTableLengths == {0, 1, MaxUint16 - 2, MaxUint16 - 1, MaxUint16}
\* the numbers of virtual methods java.lang.Object can declare
RootVirtualMethods == (0..MaxDeclared) \cup {MaxUint16 + 1}
IsUint16(n) == n >= 0 /\ n <= MaxUint16
\* 0xFFFF & n
LowUint16(n) == n % (MaxUint16 + 1)
NoCount ==
  [has_super |-> FALSE, super_vtable_length |-> 0, num_virtual_methods |-> 0,
   num_overriding |-> 0, num_miranda |-> 0, pc |-> "done", status |-> kStatusLoaded,
   vtable_length |-> 0, method_slot |-> <<>>, method_index |-> <<>>,
   miranda_slot |-> <<>>, miranda_index |-> <<>>, exception |-> "none"]
InitNoCounts == vtCount = NoCount

\* ClassLinker::LinkVirtualMethods by the numbers; a failure ends
\* DefineClass with the class in kStatusError
LinkVTableLength ==
  /\ vtCount.pc = "LinkVirtualMethods"
  /\ LET appended == vtCount.num_virtual_methods - vtCount.num_overriding
         first == IF vtCount.has_super THEN vtCount.super_vtable_length ELSE 0
         actual_count == first + appended
         slots == [i \in 1..appended |-> first + i - 1]
     IN  IF ~vtCount.has_super
         THEN IF ~IsUint16(vtCount.num_virtual_methods)
              THEN vtCount' = [vtCount EXCEPT !.pc = "done", !.status = kStatusError,
                                              !.exception = "ClassFormatError"]
              ELSE vtCount' = [vtCount EXCEPT
                                 !.pc = "LinkInterfaceMethods",
                                 !.vtable_length = vtCount.num_virtual_methods,
                                 !.method_slot = slots,
                                 !.method_index = [i \in 1..appended |-> LowUint16(slots[i])]]
         ELSE IF ~IsUint16(actual_count)
              THEN vtCount' = [vtCount EXCEPT !.pc = "done", !.status = kStatusError,
                                              !.method_slot = slots, !.method_index = slots,
                                              !.exception = "ClassFormatError"]
              ELSE vtCount' = [vtCount EXCEPT !.pc = "LinkInterfaceMethods",
                                              !.vtable_length = actual_count,
                                              !.method_slot = slots, !.method_index = slots]
  /\ UNCHANGED <<lifecycleVars, vtableVars, fieldVars, ifaceVars, dexVars, doneVars, imgVars, regVars, rtVars>>

\* the miranda methods of ClassLinker::LinkInterfaceMethods by the numbers,
\* and the rest of LinkClass, which sets kStatusResolved
LinkMirandaMethods ==
  /\ vtCount.pc = "LinkInterfaceMethods"
  /\ LET old_vtable_count == vtCount.vtable_length
         new_vtable_count == old_vtable_count + vtCount.num_miranda
     IN  vtCount' = [vtCount EXCEPT
                       !.pc = "done",
                       !.status = kStatusResolved,
                       !.vtable_length = new_vtable_count,
                       !.miranda_slot = [i \in 1..vtCount.num_miranda |->
                                           old_vtable_count + i - 1],
                       !.miranda_index = [i \in 1..vtCount.num_miranda |->
                                            LowUint16(old_vtable_count + i - 1)]]
  /\ UNCHANGED <<lifecycleVars, vtableVars, fieldVars, ifaceVars, dexVars, doneVars, imgVars, regVars, rtVars>>

\* ------------------------------------------------- registries and locks
\* The dex cache registry and the class table with their reader-writer
\* locks held across steps.  A thread registers a dex file, defines a class
\* (AllocClass, then InsertClass), removes a class or moves the image
\* classes to the table.  A cache or class is named by a number.
MaxRegOps == 3
RegDescs == {"S", "C"}
NoReg ==
  [pc |-> [t \in Threads |-> "idle"],
   op |-> [t \in Threads |-> "none"],
   dex_file |-> [t \in Threads |-> "boot.dex"],
   descriptor |-> [t \in Threads |-> "S"],
   allocated |-> [t \in Threads |-> 0],
   dex_lock_ |-> [writer |-> NoThread, readers |-> {}],
   classlinker_classes_lock_ |-> [writer |-> NoThread, readers |-> {}],
   dex_caches_ |-> {},
   class_table_ |-> {},
   image_classes |-> {},
   dex_cache_image_class_lookup_required_ |-> FALSE,
   heap |-> 0,
   ops |-> MaxRegOps]
InitNoReg == reg = NoReg

\* ReaderMutexLock / WriterMutexLock and the end of their scope
CanReadLock(lock, t) == lock.writer = NoThread
ReadLock(lock, t) == [lock EXCEPT !.readers = @ \cup {t}]
ReadUnlock(lock, t) == [lock EXCEPT !.readers = @ \ {t}]
CanWriteLock(lock, t) == lock.writer = NoThread /\ lock.readers = {}
WriteLock(lock, t) == [lock EXCEPT !.writer = t]
WriteStillLocked(lock, t) == lock
WriteUnlock(lock, t) == [lock EXCEPT !.writer = NoThread]

\* std::map<const DexFile*, mirror::DexCache*>::find and insert, which
\* leaves the map alone when the key is there
IsDexFileRegisteredLocked(dex_file) == \E e \in reg.dex_caches_ : e[1] = dex_file
MapInsert(map, key, value) ==
  IF \E e \in map : e[1] = key THEN map ELSE map \cup {<<key, value>>}
\* LookupClassFromTableLocked on the table of this section
RegLookup(table, descriptor) ==
  IF \E e \in table : e[1] = descriptor
  THEN (CHOOSE e \in table : e[1] = descriptor)[2] ELSE NULL

RegAt(t, pc) == reg.pc[t] = pc
RegGoto(t, pc) == [reg EXCEPT !.pc[t] = pc]

\* a thread starts one of the operations
RegCall(t) ==
  /\ RegAt(t, "idle")
  /\ reg.ops < MaxRegOps
  /\ \/ \E f \in DexFiles :
          reg' = [reg EXCEPT !.ops = @ + 1, !.dex_file[t] = f, !.pc[t] = "RegisterDexFile",
                             !.op[t] = "RegisterDexFile"]
     \/ \E d \in RegDescs :
        \E pc \in {"AllocClass", "RemoveClass"} :
          reg' = [reg EXCEPT !.ops = @ + 1, !.descriptor[t] = d, !.pc[t] = pc, !.op[t] = pc]
     \/ reg' = [reg EXCEPT !.ops = @ + 1, !.pc[t] = "MoveImageClassesToClassTable",
                           !.op[t] = "MoveImageClassesToClassTable"]
  /\ UNCHANGED <<lifecycleVars, vtableVars, fieldVars, ifaceVars, countVars, dexVars, doneVars, imgVars, rtVars>>

\* ClassLinker::RegisterDexFile(dex_file): the check under the reader lock
RegisterDexFile(t) ==
  /\ \/ /\ RegAt(t, "RegisterDexFile")
        /\ CanReadLock(reg.dex_lock_, t)
        /\ reg' = [reg EXCEPT !.dex_lock_ = ReadLock(@, t), !.pc[t] = "RegisterDexFileCheck"]
     \/ /\ RegAt(t, "RegisterDexFileCheck")
        /\ reg' = [reg EXCEPT !.dex_lock_ = ReadUnlock(@, t),
                              !.pc[t] = IF IsDexFileRegisteredLocked(reg.dex_file[t])
                                        THEN "idle" ELSE "AllocDexCache"]
  /\ UNCHANGED <<lifecycleVars, vtableVars, fieldVars, ifaceVars, countVars, dexVars, doneVars, imgVars, rtVars>>

\* RegisterDexFile: AllocDexCache, a call into the allocator
AllocDexCache(t) ==
  /\ RegAt(t, "AllocDexCache")
  /\ reg' = [reg EXCEPT !.heap = @ + 1, !.allocated[t] = reg.heap + 1,
                        !.pc[t] = "RegisterDexFileLock"]
  /\ UNCHANGED <<lifecycleVars, vtableVars, fieldVars, ifaceVars, countVars, dexVars, doneVars, imgVars, rtVars>>

\* RegisterDexFile: the second check and RegisterDexFileLocked under the
\* writer lock
RegisterDexFileLocked(t) ==
  /\ \/ /\ RegAt(t, "RegisterDexFileLock")
        /\ CanWriteLock(reg.dex_lock_, t)
        /\ reg' = [reg EXCEPT !.dex_lock_ = WriteLock(@, t), !.pc[t] = "RegisterDexFileLocked"]
     \/ /\ RegAt(t, "RegisterDexFileLocked")
        /\ reg' = [reg EXCEPT
                     !.dex_caches_ = IF IsDexFileRegisteredLocked(reg.dex_file[t]) THEN @
                                     ELSE MapInsert(@, reg.dex_file[t], reg.allocated[t]),
                     !.dex_lock_ = WriteUnlock(@, t),
                     !.pc[t] = "idle"]
  /\ UNCHANGED <<lifecycleVars, vtableVars, fieldVars, ifaceVars, countVars, dexVars, doneVars, imgVars, rtVars>>

\* DefineClass: AllocClass, a call into the allocator, before InsertClass
RegAllocClass(t) ==
  /\ RegAt(t, "AllocClass")
  /\ reg' = [reg EXCEPT !.heap = @ + 1, !.allocated[t] = reg.heap + 1,
                        !.pc[t] = "InsertClass"]
  /\ UNCHANGED <<lifecycleVars, vtableVars, fieldVars, ifaceVars, countVars, dexVars, doneVars, imgVars, rtVars>>

\* ClassLinker::InsertClass under the writer lock of the class table
RegInsertClass(t) ==
  /\ \/ /\ RegAt(t, "InsertClass")
        /\ CanWriteLock(reg.classlinker_classes_lock_, t)
        /\ reg' = [reg EXCEPT !.classlinker_classes_lock_ = WriteLock(@, t),
                              !.pc[t] = "InsertClassLocked"]
     \/ /\ RegAt(t, "InsertClassLocked")
        /\ reg' = [reg EXCEPT
                     !.class_table_ = IF RegLookup(@, reg.descriptor[t]) # NULL THEN @
                                      ELSE @ \cup {<<reg.descriptor[t], reg.allocated[t]>>},
                     !.classlinker_classes_lock_ = WriteUnlock(@, t),
                     !.pc[t] = "idle"]
  /\ UNCHANGED <<lifecycleVars, vtableVars, fieldVars, ifaceVars, countVars, dexVars, doneVars, imgVars, rtVars>>

\* ClassLinker::RemoveClass
RemoveClass(t) ==
  /\ \/ /\ RegAt(t, "RemoveClass")
        /\ CanWriteLock(reg.classlinker_classes_lock_, t)
        /\ reg' = [reg EXCEPT !.classlinker_classes_lock_ = WriteLock(@, t),
                              !.pc[t] = "RemoveClassLocked"]
     \/ /\ RegAt(t, "RemoveClassLocked")
        /\ reg' = [reg EXCEPT
                     !.class_table_ = {e \in @ : e[1] # reg.descriptor[t]},
                     !.classlinker_classes_lock_ = WriteUnlock(@, t),
                     !.pc[t] = "idle"]
  /\ UNCHANGED <<lifecycleVars, vtableVars, fieldVars, ifaceVars, countVars, dexVars, doneVars, imgVars, rtVars>>

\* ClassLinker::MoveImageClassesToClassTable as the registries see it
RegMoveImageClasses(t) ==
  /\ \/ /\ RegAt(t, "MoveImageClassesToClassTable")
        /\ CanWriteLock(reg.classlinker_classes_lock_, t)
        /\ reg' = [reg EXCEPT !.classlinker_classes_lock_ = WriteLock(@, t),
                              !.pc[t] = "MoveImageClassesLocked"]
     \/ /\ RegAt(t, "MoveImageClassesLocked")
        /\ reg' = [reg EXCEPT
                     !.class_table_ =
                        IF reg.dex_cache_image_class_lookup_required_
                        THEN @ \cup {e \in reg.image_classes : RegLookup(@, e[1]) = NULL}
                        ELSE @,
                     !.dex_cache_image_class_lookup_required_ = FALSE,
                     !.classlinker_classes_lock_ = WriteUnlock(@, t),
                     !.pc[t] = "idle"]
  /\ UNCHANGED <<lifecycleVars, vtableVars, fieldVars, ifaceVars, countVars, dexVars, doneVars, imgVars, rtVars>>

\* ------------------------------------------------------------ ResolveType
\* ClassLinker::ResolveType(dex_file, type_idx, dex_cache, class_loader) on
\* the dex cache of one dex file that two class loaders use.  Type P is
\* found by the boot loader both delegate to; type Q is defined by each
\* loader itself from the dex file.  A class is named by a number.
MaxRtOps == 3
RtTypes == {"P", "Q"}
RtLoaders == {"L1", "L2"}
\* the loader ClassLoader.loadClass ends up defining the class with
DefiningLoader(descriptor, class_loader) ==
  IF descriptor = "P" THEN BootLoader ELSE class_loader
NoRt ==
  [pc |-> [t \in Threads |-> "idle"],
   type_idx |-> [t \in Threads |-> "P"],
   class_loader |-> [t \in Threads |-> "L1"],
   resolved |-> [t \in Threads |-> NULL],
   exception |-> [t \in Threads |-> FALSE],
   resolved_types_ |-> [d \in RtTypes |-> NULL],
   class_table_ |-> {},
   heap |-> 0,
   ops |-> MaxRtOps]
InitNoRt == rt = NoRt
\* no class has had its encoded static values read or its code verified yet
InitNothingDone ==
  /\ static_values = [k \in Objs |-> FALSE]
  /\ verifier_runs = [k \in Objs |-> 0]
  /\ kAccPreverified = [k \in Objs |-> FALSE]

\* the class of the table for a descriptor and loader, NULL if none
RtLookupClass(descriptor, class_loader) ==
  IF \E e \in rt.class_table_ : e[1] = descriptor /\ e[2] = class_loader
  THEN (CHOOSE e \in rt.class_table_ : e[1] = descriptor /\ e[2] = class_loader)[3]
  ELSE NULL

\* a thread calls ResolveType with a type index and a class loader
RtCall(t) ==
  /\ rt.pc[t] = "idle"
  /\ rt.ops < MaxRtOps
  /\ \E d \in RtTypes, l \in RtLoaders :
       rt' = [rt EXCEPT !.ops = @ + 1, !.pc[t] = "GetResolvedType", !.type_idx[t] = d,
                        !.class_loader[t] = l, !.resolved[t] = NULL,
                        !.exception[t] = FALSE]
  /\ UNCHANGED <<lifecycleVars, vtableVars, fieldVars, ifaceVars, countVars, dexVars, doneVars, imgVars, regVars>>

\* ResolveType: dex_cache->GetResolvedType(type_idx)
RtGetResolvedType(t) ==
  /\ rt.pc[t] = "GetResolvedType"
  /\ LET resolved == rt.resolved_types_[rt.type_idx[t]]
     IN  rt' = [rt EXCEPT !.resolved[t] = resolved,
                          !.pc[t] = IF resolved = NULL THEN "FindClass" ELSE "idle"]
  /\ UNCHANGED <<lifecycleVars, vtableVars, fieldVars, ifaceVars, countVars, dexVars, doneVars, imgVars, regVars>>

\* ResolveType: FindClass(self, descriptor, class_loader), which returns the
\* class of the table, defines it, or fails with an exception pending
RtFindClass(t) ==
  /\ rt.pc[t] = "FindClass"
  /\ LET descriptor == rt.type_idx[t]
         loader == DefiningLoader(descriptor, rt.class_loader[t])
         found == RtLookupClass(descriptor, loader)
     IN  \/ /\ found # NULL
            /\ rt' = [rt EXCEPT !.resolved[t] = found, !.pc[t] = "SetResolvedType"]
         \/ /\ found = NULL
            /\ rt' = [rt EXCEPT !.heap = @ + 1,
                                !.class_table_ = @ \cup {<<descriptor, loader, rt.heap + 1>>},
                                !.resolved[t] = rt.heap + 1,
                                !.pc[t] = "SetResolvedType"]
         \/ /\ found = NULL
            /\ rt' = [rt EXCEPT !.exception[t] = TRUE, !.pc[t] = "idle"]
  /\ UNCHANGED <<lifecycleVars, vtableVars, fieldVars, ifaceVars, countVars, dexVars, doneVars, imgVars, regVars>>

\* ResolveType: dex_cache->SetResolvedType(type_idx, resolved)
RtSetResolvedType(t) ==
  /\ rt.pc[t] = "SetResolvedType"
  /\ rt' = [rt EXCEPT !.resolved_types_[rt.type_idx[t]] = rt.resolved[t], !.pc[t] = "idle"]
  /\ UNCHANGED <<lifecycleVars, vtableVars, fieldVars, ifaceVars, countVars, dexVars, doneVars, imgVars, regVars>>

\* ------------------------------------------- LookupClass and the image
\* The class table next to the classes of the boot image, which are found
\* through the image dex caches until they are moved into the table.  A
\* table entry is a pair of descriptor and class loader; "X" is a class that
\* is in neither.
MaxImgOps == 5
\* kMaxFailedDexCacheLookups (1000), scaled down
kMaxFailedDexCacheLookups == 2
ImgDescs == {"Obj", "S", "X"}
ImageClasses == {"Obj", "S"}
NoImg ==
  [class_table_ |-> {},
   dex_cache_image_class_lookup_required_ |-> FALSE,
   failed_dex_cache_class_lookups_ |-> 0,
   op |-> "none",
   descriptor |-> NoDesc,
   result |-> NoDesc,
   path |-> "none",
   misses_in_a_row |-> 0,
   ops |-> 0]
InitNoImg == img = NoImg

\* ++failed_dex_cache_class_lookups_ > kMaxFailedDexCacheLookups
MigrationAlwaysDue(failed) == TRUE
MigrationDue(failed) == failed > kMaxFailedDexCacheLookups

\* ClassLinker::MoveImageClassesToClassTable
ImgMoved(table) == table \cup {<<d, BootLoader>> : d \in ImageClasses}

\* ClassLinker::LookupClass(descriptor, class_loader); path tells how the
\* lookup went and misses_in_a_row counts the lookups that missed table and
\* image since the last one that found its class in the image
ImgLookupClass ==
  /\ img.ops > 0
  /\ \E descriptor \in ImgDescs, class_loader \in Loaders :
       LET called == [img EXCEPT !.ops = @ - 1, !.op = "LookupClass",
                                 !.descriptor = descriptor]
           failed == img.failed_dex_cache_class_lookups_ + 1
       IN  IF <<descriptor, class_loader>> \in img.class_table_
           THEN img' = [called EXCEPT !.result = descriptor, !.path = "table"]
           ELSE IF class_loader # BootLoader \/ ~img.dex_cache_image_class_lookup_required_
           THEN img' = [called EXCEPT !.result = NoDesc, !.path = "none"]
           ELSE IF descriptor \in ImageClasses
           THEN \* LookupClassFromImage found it: InsertClass
                img' = [called EXCEPT !.result = descriptor, !.path = "hit",
                                      !.class_table_ = @ \cup {<<descriptor, BootLoader>>},
                                      !.misses_in_a_row = 0]
           ELSE img' = [called EXCEPT
                          !.result = NoDesc, !.path = "miss",
                          !.failed_dex_cache_class_lookups_ = failed,
                          !.misses_in_a_row = @ + 1,
                          !.class_table_ = IF MigrationDue(failed) THEN ImgMoved(@) ELSE @,
                          !.dex_cache_image_class_lookup_required_ =
                             IF MigrationDue(failed) THEN FALSE ELSE @]
  /\ UNCHANGED <<lifecycleVars, vtableVars, fieldVars, ifaceVars, countVars, dexVars, doneVars,
                 regVars, rtVars>>

\* VisitClasses, NumLoadedClasses and the other walks of the table move the
\* image classes first when that has not been done
ImgVisitClasses ==
  /\ img.ops > 0
  /\ img' = [img EXCEPT !.ops = @ - 1, !.op = "VisitClasses", !.descriptor = NoDesc,
                        !.result = NoDesc, !.path = "none",
                        !.class_table_ =
                           IF img.dex_cache_image_class_lookup_required_
                           THEN ImgMoved(@) ELSE @,
                        !.dex_cache_image_class_lookup_required_ = FALSE]
  /\ UNCHANGED <<lifecycleVars, vtableVars, fieldVars, ifaceVars, countVars, dexVars, doneVars,
                 regVars, rtVars>>

\* ------------------------------------------------------------ the system
\* statuses the image writer leaves on class S (Obj is initialized)
ImageStatus == {kStatusRetryVerificationAtRuntime, kStatusVerified}

InitCommon ==
  /\ init_done_ = FALSE
  /\ aborted = FALSE
  /\ clinitThreadId = [o \in Objs |-> NoThread]
  /\ lockOwner = [o \in Objs |-> NoThread]
  /\ lockDepth = [o \in Objs |-> 0]
  /\ class_table_ = {}
  /\ dex_cache_image_class_lookup_required_ = FALSE
  /\ exc = [t \in Threads |-> NoException]
  /\ ret = [t \in Threads |-> NoResult]
  /\ call = [t \in Threads |-> NoCall]
  /\ verifyErrorClass = [o \in Objs |-> "none"]
  /\ clinitInvoked = [o \in Objs |-> 0]
  /\ calls = 0

\* the compiler building the boot image from the boot class path
InitCompilerOn(defs) ==
  /\ class_defs = defs
  /\ IsCompiler = TRUE
  /\ klassDesc = [o \in Objs |-> NoDesc]
  /\ klassLoader = [o \in Objs |-> BootLoader]
  /\ status = [o \in Objs |-> kStatusNotReady]
  /\ superClass = [o \in Objs |-> NULL]
  /\ resolvedTypes = [f \in DexFiles |-> [d \in Descs |-> NULL]]
  /\ stack = [t \in Threads |-> IF t = "t1" THEN <<BootFrame("InitFromCompiler", "alloc")>>
                                ELSE <<>>]

InitCompiler == InitCompilerOn(ChainDefs)

\* a runtime starting from a boot image that holds Obj and S
InitImageOn(defs) ==
  /\ class_defs = defs
  /\ IsCompiler = FALSE
  /\ klassDesc = [o \in Objs |-> CASE o = 1 -> "Obj" [] o = 2 -> "S" [] OTHER -> NoDesc]
  /\ klassLoader = [o \in Objs |-> BootLoader]
  /\ \E s \in ImageStatus :
       status = [o \in Objs |-> CASE o = 1 -> kStatusInitialized [] o = 2 -> s
                                  [] OTHER -> kStatusNotReady]
  /\ superClass = [o \in Objs |-> IF o = 2 THEN 1 ELSE NULL]
  /\ resolvedTypes = [f \in DexFiles |-> [d \in Descs |->
                        IF f = "boot.dex" /\ d = "Obj" THEN 1
                        ELSE IF f = "boot.dex" /\ d = "S" THEN 2 ELSE NULL]]
  /\ stack = [t \in Threads |-> IF t = "t1" THEN <<BootFrame("InitFromImage", "start")>>
                                ELSE <<>>]
InitImage == InitImageOn(ChainDefs)

\* no class chain handed to the method table builder
InitNoFields ==
  /\ fieldsKlass = [descriptor |-> "LC;", super_object_size |-> SizeOfObject,
                    fields_offset |-> 96]
  /\ sfields = <<>>
  /\ ifields = <<>>
  /\ fieldOffset = [f \in ArtFields |-> NoOffset]
  /\ num_reference_fields_ = [is_static \in BOOLEAN |-> 0]
  /\ class_size_ = 0
  /\ object_size_ = 0
  /\ linkFieldsRuns = [is_static \in BOOLEAN |-> 0]

\* nothing linked by LinkInterfaceMethods yet
InitNotLinked ==
  /\ iftable = [k \in IfKlasses |-> <<>>]
  /\ imtable = [k \in IfKlasses |-> DefaultImt]
  /\ ifVTable = [k \in IfKlasses |-> <<>>]
  /\ ifVirtuals = [k \in IfKlasses |-> ifDefs[k].methods]
  /\ ifTableObject = [k \in IfKlasses |-> NoKlass]
  /\ ifLinked = [k \in IfKlasses |-> "no"]

\* the definition of a class or interface with nothing in it
EmptyDef(klass) ==
  [is_interface |-> klass \in IfInterfaces,
   super_class |-> IF klass = "B" THEN "A" ELSE NoKlass,
   interfaces |-> <<>>,
   methods |-> <<>>]

InitNoInterfaces ==
  /\ ifDefs = [k \in IfKlasses |-> EmptyDef(k)]
  /\ InitNotLinked

InitNoLink ==
  /\ linkClasses = [k \in Levels |-> [pkg |-> "p", methods |-> <<>>]]
  /\ vtable = [k \in Levels |-> <<>>]
  /\ methodIndex = [m \in MethodIds |-> NoIndex]
  /\ linked = [k \in Levels |-> "no"]
  /\ InitNoFields
  /\ InitNoInterfaces
  /\ InitNoCounts
  /\ InitNoReg
  /\ InitNoRt
  /\ InitNothingDone
  /\ InitNoImg

Init == InitCommon /\ (InitCompiler \/ InitImage) /\ InitNoLink

\* an application class with no <clinit> and no static values, below S
LeafDesc == "D"
\* the statuses of Obj, S and the leaf class when the compiler driver comes
\* to initialize classes: S may have run its <clinit>, the leaf has not
ChainStatuses ==
  {<<kStatusInitialized, kStatusInitialized, kStatusVerified>>,
   <<kStatusInitialized, kStatusInitialized, kStatusResolved>>,
   <<kStatusInitialized, kStatusVerified, kStatusVerified>>,
   <<kStatusInitialized, kStatusVerified, kStatusResolved>>,
   <<kStatusVerified, kStatusVerified, kStatusVerified>>,
   <<kStatusVerified, kStatusResolved, kStatusResolved>>}

\* the compiler after the three classes were defined: the inputs of the
\* fast-fail test of InitializeClass
InitCanWeInitializeClass ==
  /\ class_defs = ChainDefs
  /\ IsCompiler = TRUE
  /\ init_done_ = TRUE
  /\ aborted = FALSE
  /\ klassDesc = [o \in Objs |-> CASE o = 1 -> "Obj" [] o = 2 -> "S" [] o = 3 -> LeafDesc
                                   [] OTHER -> NoDesc]
  /\ klassLoader = [o \in Objs |-> IF o = 3 THEN AppLoader ELSE BootLoader]
  /\ \E c \in ChainStatuses :
       /\ status = [o \in Objs |-> IF o <= 3 THEN c[o] ELSE kStatusNotReady]
       /\ clinitInvoked = [o \in Objs |-> IF o = 2 /\ c[2] = kStatusInitialized THEN 1 ELSE 0]
       /\ clinitThreadId = [o \in Objs |-> IF o <= 3 /\ c[o] = kStatusInitialized
                                            THEN "t1" ELSE NoThread]
  /\ superClass = [o \in Objs |-> IF o \in {2, 3} THEN o - 1 ELSE NULL]
  /\ class_table_ = {1, 2, 3}
  /\ dex_cache_image_class_lookup_required_ = FALSE
  /\ resolvedTypes = [f \in DexFiles |-> [d \in Descs |->
                        IF d = "Obj" THEN 1 ELSE IF d = "S" THEN 2 ELSE NULL]]
  /\ lockOwner = [o \in Objs |-> NoThread]
  /\ lockDepth = [o \in Objs |-> 0]
  /\ verifyErrorClass = [o \in Objs |-> "none"]
  /\ stack = [t \in Threads |-> <<>>]
  /\ exc = [t \in Threads |-> NoException]
  /\ ret = [t \in Threads |-> NoResult]
  /\ call = [t \in Threads |-> NoCall]
  /\ calls = 0
  /\ InitNoLink

\* calls of EnsureInitialized up to the fast-fail test
NextCanWeInitializeClass ==
  \E t \in Threads :
    \/ EnsureInitialized(t)
    \/ InitializeClass(t)

SpecCanWeInitializeClass == InitCanWeInitializeClass /\ [][NextCanWeInitializeClass]_vars

\* every class chain within the bounds, nothing linked yet; the root class
\* lives in package p and declares at most foo
InitLinkVirtualMethods ==
  /\ InitCommon
  /\ InitCompiler
  /\ linkClasses \in {c \in [Levels -> ClassDefs] :
                       /\ c[0].pkg = "p"
                       /\ \A i \in 1..Len(c[0].methods) : c[0].methods[i].name = "foo"}
  /\ vtable = [k \in Levels |-> <<>>]
  /\ methodIndex = [m \in MethodIds |-> NoIndex]
  /\ linked = [k \in Levels |-> "no"]
  /\ InitNoFields
  /\ InitNoInterfaces
  /\ InitNoCounts
  /\ InitNoReg
  /\ InitNoRt
  /\ InitNothingDone
  /\ InitNoImg

NextLinkVirtualMethods == \E klass \in Levels : LinkVirtualMethods(klass)

SpecLinkVirtualMethods == InitLinkVirtualMethods /\ [][NextLinkVirtualMethods]_vars

\* the fields of a class definition come in the order of the dex file: by
\* field index, that is by name and then by type descriptor
DexLess(f, g) ==
  \/ StrCmpLess(f.name, g.name)
  \/ /\ f.name = g.name
     /\ \/ f.type = kPrimFloat /\ g.type # kPrimFloat
        \/ f.type = kPrimInt /\ g.type \in {kPrimLong, kPrimNot}
        \/ f.type = kPrimLong /\ g.type = kPrimNot
RECURSIVE DexOrder(_)
DexOrder(S) ==
  IF S = {} THEN <<>>
  ELSE LET f == CHOOSE f \in S : \A g \in S \ {f} : DexLess(f, g)
       IN  <<f>> \o DexOrder(S \ {f})

\* the field sets within the bound
FieldSets == {S \in SUBSET ArtFields : Cardinality(S) <= MaxFields}

\* a loaded class that has static fields only, or instance fields only, and
\* no field laid out yet.  java.lang.ref.Reference extends java.lang.Object
\* and its instance fields are references, referent among them.
InitLinkFields ==
  /\ InitCommon
  /\ InitCompiler
  /\ linkClasses = [k \in Levels |-> [pkg |-> "p", methods |-> <<>>]]
  /\ vtable = [k \in Levels |-> <<>>]
  /\ methodIndex = [m \in MethodIds |-> NoIndex]
  /\ linked = [k \in Levels |-> "no"]
  /\ fieldsKlass \in [descriptor : FieldsDescriptors, super_object_size : SuperObjectSizes,
                       fields_offset : ClassFieldsOffsets]
  /\ \E S \in FieldSets : \E is_static \in BOOLEAN :
       /\ fieldsKlass.descriptor = ReferenceDescriptor =>
            /\ ~is_static
            /\ fieldsKlass.super_object_size = SizeOfObject
            /\ \A f \in S : ~IsPrimitiveField(f)
            /\ \E f \in S : f.name = "referent"
       /\ is_static => fieldsKlass.super_object_size = SizeOfObject
       /\ ~is_static => fieldsKlass.fields_offset = 96
       /\ sfields = IF is_static THEN DexOrder(S) ELSE <<>>
       /\ ifields = IF is_static THEN <<>> ELSE DexOrder(S)
  /\ fieldOffset = [f \in ArtFields |-> NoOffset]
  /\ num_reference_fields_ = [is_static \in BOOLEAN |-> 0]
  /\ class_size_ = SizeOfClass(sfields)
  /\ object_size_ = 0
  /\ linkFieldsRuns = [is_static \in BOOLEAN |-> 0]
  /\ InitNoInterfaces
  /\ InitNoCounts
  /\ InitNoReg
  /\ InitNoRt
  /\ InitNothingDone
  /\ InitNoImg

NextLinkFields == LinkInstanceFields \/ LinkStaticFields

SpecLinkFields == InitLinkFields /\ [][NextLinkFields]_vars

\* a loaded class about to be linked: java.lang.Object, which has no super
\* class and no interface, or a class below a resolved super class
InitVTableLength ==
  /\ InitCommon
  /\ InitCompiler
  /\ linkClasses = [k \in Levels |-> [pkg |-> "p", methods |-> <<>>]]
  /\ vtable = [k \in Levels |-> <<>>]
  /\ methodIndex = [m \in MethodIds |-> NoIndex]
  /\ linked = [k \in Levels |-> "no"]
  /\ InitNoFields
  /\ InitNoInterfaces
  /\ InitNoReg
  /\ InitNoRt
  /\ InitNothingDone
  /\ InitNoImg
  /\ \/ \E n \in RootVirtualMethods :
          vtCount = [NoCount EXCEPT !.pc = "LinkVirtualMethods", !.num_virtual_methods = n]
     \/ \E len \in SuperVTableLengths, n \in 0..MaxDeclared, mir \in 0..MaxMiranda :
        \E o \in 0..n :
          /\ o <= len
          /\ vtCount = [NoCount EXCEPT !.pc = "LinkVirtualMethods", !.has_super = TRUE,
                                       !.super_vtable_length = len,
                                       !.num_virtual_methods = n,
                                       !.num_overriding = o, !.num_miranda = mir]

NextVTableLength == LinkVTableLength \/ LinkMirandaMethods

SpecVTableLength == InitVTableLength /\ [][NextVTableLength]_vars

\* a runtime whose image holds class S, nothing registered yet
InitRegistries ==
  /\ InitCommon
  /\ InitCompiler
  /\ linkClasses = [k \in Levels |-> [pkg |-> "p", methods |-> <<>>]]
  /\ vtable = [k \in Levels |-> <<>>]
  /\ methodIndex = [m \in MethodIds |-> NoIndex]
  /\ linked = [k \in Levels |-> "no"]
  /\ InitNoFields
  /\ InitNoInterfaces
  /\ InitNoCounts
  /\ InitNoRt
  /\ InitNothingDone
  /\ InitNoImg
  /\ \E required \in BOOLEAN :
       reg = [NoReg EXCEPT !.ops = 0, !.image_classes = {<<"S", 1>>}, !.heap = 1,
                           !.dex_cache_image_class_lookup_required_ = required]

NextRegistries ==
  \E t \in Threads :
    \/ RegCall(t)
    \/ RegisterDexFile(t)
    \/ AllocDexCache(t)
    \/ RegisterDexFileLocked(t)
    \/ RegAllocClass(t)
    \/ RegInsertClass(t)
    \/ RemoveClass(t)
    \/ RegMoveImageClasses(t)

SpecRegistries == InitRegistries /\ [][NextRegistries]_vars

\* an empty dex cache; nothing defined yet
InitResolveType ==
  /\ InitCommon
  /\ InitCompiler
  /\ linkClasses = [k \in Levels |-> [pkg |-> "p", methods |-> <<>>]]
  /\ vtable = [k \in Levels |-> <<>>]
  /\ methodIndex = [m \in MethodIds |-> NoIndex]
  /\ linked = [k \in Levels |-> "no"]
  /\ InitNoFields
  /\ InitNoInterfaces
  /\ InitNoCounts
  /\ InitNoReg
  /\ rt = [NoRt EXCEPT !.ops = 0]
  /\ InitNothingDone
  /\ InitNoImg

NextResolveType ==
  \E t \in Threads :
    \/ RtCall(t)
    \/ RtGetResolvedType(t)
    \/ RtFindClass(t)
    \/ RtSetResolvedType(t)

SpecResolveType == InitResolveType /\ [][NextResolveType]_vars

\* LookupClass after InitFromImage: the table is empty and the image classes
\* are looked up in the image dex caches
InitImageLookup ==
  /\ InitCommon
  /\ InitCompiler
  /\ linkClasses = [k \in Levels |-> [pkg |-> "p", methods |-> <<>>]]
  /\ vtable = [k \in Levels |-> <<>>]
  /\ methodIndex = [m \in MethodIds |-> NoIndex]
  /\ linked = [k \in Levels |-> "no"]
  /\ InitNoFields
  /\ InitNoInterfaces
  /\ InitNoCounts
  /\ InitNoReg
  /\ InitNoRt
  /\ static_values = [k \in Objs |-> FALSE]
  /\ verifier_runs = [k \in Objs |-> 0]
  /\ kAccPreverified = [k \in Objs |-> FALSE]
  /\ img = [NoImg EXCEPT !.dex_cache_image_class_lookup_required_ = TRUE, !.ops = MaxImgOps]

NextImageLookup == ImgLookupClass \/ ImgVisitClasses

SpecImageLookup == InitImageLookup /\ [][NextImageLookup]_vars

\* the sequences of at most n elements of S
RECURSIVE SeqsUpTo(_, _)
SeqsUpTo(S, n) ==
  IF n = 0 THEN {<<>>}
  ELSE SeqsUpTo(S, n - 1) \cup {Append(q, x) : q \in SeqsUpTo(S, n - 1), x \in S}

\* the methods the interfaces and the classes can declare
InterfaceMethods(klass) ==
  IF klass = "I"
  THEN {<<>>, <<ArtMethod("I", "foo", TRUE, TRUE, 0)>>,
        <<ArtMethod("I", "foo", TRUE, TRUE, 0), ArtMethod("I", "bar", TRUE, TRUE, 2)>>}
  ELSE {<<>>, <<ArtMethod("J", "bar", TRUE, TRUE, 1)>>, <<ArtMethod("J", "foo", TRUE, TRUE, 2)>>}
ClassMethods(klass) ==
  IF klass = "A"
  THEN {<<>>, <<ArtMethod("A", "foo", TRUE, FALSE, 4)>>,
        <<ArtMethod("A", "foo", FALSE, FALSE, 4)>>, <<ArtMethod("A", "foo", FALSE, TRUE, 4)>>}
  ELSE {<<>>, <<ArtMethod("B", "bar", TRUE, FALSE, 5)>>,
        <<ArtMethod("B", "foo", TRUE, FALSE, 6), ArtMethod("B", "bar", TRUE, FALSE, 5)>>}

\* every hierarchy within the bounds, nothing linked yet: J extends I or
\* nothing; a class lists up to MaxDirectInterfaces interfaces, twice the
\* same one allowed; B may list the class A where an interface belongs
InitLinkInterfaceMethods ==
  /\ InitCommon
  /\ InitCompiler
  /\ linkClasses = [k \in Levels |-> [pkg |-> "p", methods |-> <<>>]]
  /\ vtable = [k \in Levels |-> <<>>]
  /\ methodIndex = [m \in MethodIds |-> NoIndex]
  /\ linked = [k \in Levels |-> "no"]
  /\ InitNoFields
  /\ \E ji \in {<<>>, <<"I">>} :
     \E ai \in SeqsUpTo(IfInterfaces, MaxDirectInterfaces) :
     \E bi \in SeqsUpTo(IfInterfaces, MaxDirectInterfaces) \cup {<<"A">>} :
     \E im \in InterfaceMethods("I"), jm \in InterfaceMethods("J") :
     \E am \in ClassMethods("A"), bm \in ClassMethods("B") :
       ifDefs = [k \in IfKlasses |->
                   [EmptyDef(k) EXCEPT
                      !.interfaces = CASE k = "I" -> <<>> [] k = "J" -> ji
                                       [] k = "A" -> ai [] k = "B" -> bi,
                      !.methods = CASE k = "I" -> im [] k = "J" -> jm
                                    [] k = "A" -> am [] k = "B" -> bm]]
  /\ InitNotLinked
  /\ InitNoCounts
  /\ InitNoReg
  /\ InitNoRt
  /\ InitNothingDone
  /\ InitNoImg

NextLinkInterfaceMethods == \E klass \in IfKlasses : LinkMethods(klass)

SpecLinkInterfaceMethods == InitLinkInterfaceMethods /\ [][NextLinkInterfaceMethods]_vars

Next ==
  \E t \in Threads :
    \/ CallFindClass(t)
    \/ EnsureInitialized(t)
    \/ CallVerifyClass(t)
    \/ InitFromCompiler(t)
    \/ InitFromCompilerRerun(t)
    \/ FinishInit(t)
    \/ InitFromImage(t)
    \/ MoveImageClassesToClassTable(t)
    \/ FindClass(t)
    \/ LookupClass(t)
    \/ FindClassNotLoaded(t)
    \/ FindClassLoaded(t)
    \/ CreateArrayClass(t)
    \/ CreateArrayClassInsert(t)
    \/ DefineClass(t)
    \/ DefineClassLoadFailed(t)
    \/ InsertClass(t)
    \/ LoadSuperAndInterfaces(t)
    \/ ResolveType(t)
    \/ LinkClass(t)
    \/ EnsureResolved(t)
    \/ EnsureResolvedLocked(t)
    \/ EnsureResolvedResult(t)
    \/ EnsureResolvedCheck(t)
    \/ VerifyClass(t)
    \/ VerifyClassSuper(t)
    \/ VerifyClassSuperVerified(t)
    \/ VerifyClassRun(t)
    \/ VerifyClassResult(t)
    \/ InitializeClass(t)
    \/ InitializeClassLocked(t)
    \/ InitializeClassVerified(t)
    \/ WaitForInitializeClass(t)
    \/ InitializeClassSuper(t)
    \/ InitializeClassSuperInitialized(t)
    \/ InitializeClassStatics(t)
    \/ InitializeClassClinit(t)
    \/ ClinitBody(t)
    \/ InitializeClassFinish(t)

Spec == Init /\ [][Next]_vars

\* the class paths may also hold the malformed definitions, which the
\* compiler reaches through the compile time class path
InitCircularity == Init \/ (InitCommon /\ InitCompilerOn(CyclicDefs) /\ InitNoLink)
SpecCircularity == InitCircularity /\ [][Next]_vars

\* the class lifecycle started from an image as well when C is defined from
\* the dex file of the boot class path, whose dex cache the image filled
InitBootClassPath == Init \/ (InitCommon /\ InitImageOn(BootDefs) /\ InitNoLink)
SpecBootClassPath == InitBootClassPath /\ [][Next]_vars

\* a thread waiting on a class's monitor is woken when SetStatus changes the
\* status, and is scheduled
WaitersAreWoken == \A t \in Threads : WF_stack(WaitForInitializeClass(t))
SpecWaitersAreWoken == Spec /\ WaitersAreWoken

TypeOK ==
  /\ status \in [Objs -> Status]
  /\ class_table_ \subseteq Allocated
  /\ \A o \in Objs : lockDepth[o] >= 0 /\ (lockDepth[o] = 0 <=> lockOwner[o] = NoThread)

\* ================================================================ claims
\* a class object that exists before and after a step
Live(o) == klassDesc[o] # NoDesc /\ klassDesc'[o] # NoDesc
\* thread t's innermost call returns in this step
Returned(t) == Len(stack'[t]) < Len(stack[t])
\* the classes defined from a class definition (not array classes)
Defined == {o \in Allocated : klassDesc[o] \in Descs}

C2_ErrorIsSticky ==
  [][\A o \in Objs : (Live(o) /\ status[o] = kStatusError) => status'[o] = kStatusError]_vars

\* C2 witness: VerifyClass was called on a class that initialization had
\* left erroneous, rejected it with ThrowEarlierClassFailure, and the class
\* is still erroneous.
C2_Witness ==
  \E t \in Threads :
    /\ stack[t] = <<>>
    /\ call[t].op = "VerifyClass"
    /\ IsErroneous(call[t].k)
    /\ exc[t].kind = "NoClassDefFoundError"

\* thread t's FindClass call is over and returned a class
FindDone(t) == stack[t] = <<>> /\ call[t].op = "FindClass" /\ ret[t].class # NULL
\* the entries of the class table under the key of class o
SameKey(o) == {e \in class_table_ : klassDesc[e] = klassDesc[o] /\ klassLoader[e] = klassLoader[o]}
\* a frame of DefineClass that lost the insert race: it holds its own class
\* object and the one it found in the table
IsLoser(f) == f.fn = "FindClass" /\ f.k # NULL /\ f.e # NULL

\* C3: FindClass calls of two threads for the same (descriptor, loader) that
\* both return a class return the same object; that object is the one entry
\* of the class table under its key; a thread that lost the insert race
\* keeps its own object out of the table and goes on with the winner's.
C3_RacingDefinersAgree ==
  /\ \A t, u \in Threads :
       (FindDone(t) /\ FindDone(u) /\ call[t].d = call[u].d /\ call[t].l = call[u].l)
         => ret[t].class = ret[u].class
  /\ \A t \in Threads :
       FindDone(t) => /\ klassDesc[ret[t].class] = call[t].d
                      /\ SameKey(ret[t].class) = {ret[t].class}
  /\ \A t \in Threads : \A i \in 1..Len(stack[t]) :
       IsLoser(stack[t][i]) => /\ stack[t][i].k \notin class_table_
                               /\ SameKey(stack[t][i].k) = {stack[t][i].e}

\* C3 witness: one thread's FindClass returned the class it inserted while
\* the other thread, which raced it for the same (descriptor, loader) and
\* lost, is in EnsureResolved on that very object.
C3_Witness ==
  \E t, u \in Threads :
    /\ t # u
    /\ FindDone(t)
    /\ call[u].op = "FindClass" /\ call[u].d = call[t].d /\ call[u].l = call[t].l
    /\ stack[u] # <<>>
    /\ IsLoser(Top(u))
    /\ Top(u).e = ret[t].class

\* C4: the class table never holds two classes with the same descriptor and
\* defining loader, and InsertClass on a hit hands back the entry that is
\* there and leaves the table as it is.
C4_TableKeysUnique ==
  [][/\ \A a, b \in class_table_' :
          (klassDesc'[a] = klassDesc'[b] /\ klassLoader'[a] = klassLoader'[b]) => a = b
     /\ \A t \in Threads :
          (/\ stack[t] # <<>>
           /\ Top(t).fn = "FindClass"
           /\ Top(t).pc \in {"InsertClass", "InsertArrayClass"}
           /\ SameKey(Top(t).k) # {}
           /\ stack'[t] # stack[t])
            => /\ class_table_' = class_table_
               /\ IF Top(t).pc = "InsertClass"
                  THEN stack'[t] = WithTop(t, [Top(t) EXCEPT !.pc = "EnsureResolved",
                                                            !.e = CHOOSE e \in SameKey(Top(t).k) : TRUE])[t]
                  ELSE ret'[t].class \in SameKey(Top(t).k)]_vars

\* C4 witness: InsertClass has just found the key taken; the caller holds
\* its own object, which is not in the table, and the existing entry.
C4_Witness ==
  \E t \in Threads :
    /\ stack[t] # <<>>
    /\ IsLoser(Top(t))
    /\ Top(t).pc = "EnsureResolved"
    /\ Top(t).e \in class_table_
    /\ Top(t).k \notin class_table_
    /\ Cardinality(class_table_) >= 2

\* C5: in every linked class C with super class S, every virtual method m
\* that C declares and that matches an accessible, non-final method in slot
\* j of S's vtable sits in slot j of C's vtable, has method index j, and has
\* no appended slot.
C5_OverrideTakesEveryMatchingSlot ==
  \A c \in Levels \ {0} :
    linked[c] = "yes" =>
      \A i \in 1..NumVirtualMethods(c) : \A j \in 0..(Len(vtable[c - 1]) - 1) :
        LET m == GetVirtualMethodDuringLinking(c, i)
            super_method == vtable[c - 1][j + 1]
        IN  (/\ HasSameNameAndSignature(m, super_method)
             /\ CanAccessMember(c, super_method)
             /\ ~IsFinal(super_method))
              => /\ vtable[c][j + 1] = m
                 /\ methodIndex[m] = j
                 /\ \A a \in Len(vtable[c - 1])..(Len(vtable[c]) - 1) : vtable[c][a + 1] # m

\* the pcs of InitializeClass between marking the class Initializing and
\* recording the outcome
InitSteps == {"super", "superInitialized", "statics", "clinit", "invoke", "finish"}
\* the frames of thread t that are initializing class o
InitFrames(t, o) ==
  {i \in 1..Len(stack[t]) : /\ stack[t][i].fn = "InitializeClass"
                            /\ stack[t][i].k = o
                            /\ stack[t][i].pc \in InitSteps}
Initializers(o) == {t \in Threads : InitFrames(t, o) # {}}
OneInitializer ==
  \A o \in Objs :
    /\ clinitInvoked[o] <= 1
    /\ Cardinality(Initializers(o)) <= 1
    /\ \A t \in Initializers(o) : /\ Cardinality(InitFrames(t, o)) = 1
                                  /\ clinitThreadId[o] = t
                                  /\ status[o] = kStatusInitializing

\* C6: a class enters Initializing at most once (only from Verified, and it
\* never comes back below Initializing), its <clinit> is invoked at most
\* once, only by the thread recorded as its clinit thread, and no two
\* threads (nor two calls of one thread) run its initialization steps.
C6_InitializedOnce ==
  [][/\ OneInitializer'
     /\ \A o \in Objs :
          Live(o) =>
            /\ (status'[o] = kStatusInitializing /\ status[o] # kStatusInitializing)
                 => status[o] = kStatusVerified /\ clinitInvoked[o] = 0
            /\ status[o] \in {kStatusInitializing, kStatusInitialized, kStatusError}
                 => status'[o] \in {kStatusInitializing, kStatusInitialized, kStatusError}
            /\ clinitInvoked'[o] # clinitInvoked[o]
                 => \E t \in Threads : /\ stack'[t] # stack[t]
                                       /\ clinitThreadId[o] = t
                                       /\ status[o] = kStatusInitializing]_vars

\* C6 witness: one thread is inside the <clinit> it invoked once while
\* another thread that asked for the same class waits.
C6_Witness ==
  \E o \in Objs : \E t, u \in Threads :
    /\ clinitInvoked[o] = 1
    /\ t \in Initializers(o)
    /\ u # t
    /\ At(u, "InitializeClass", "WaitForInitializeClass")
    /\ Top(u).k = o

\* thread t is in a call of InitializeClass on a class that t itself is
\* initializing further up its stack
Reentrant(t) ==
  /\ stack[t] # <<>>
  /\ Top(t).fn = "InitializeClass"
  /\ Top(t).pc \in {"start", "lock"}
  /\ status[Top(t).k] = kStatusInitializing
  /\ clinitThreadId[Top(t).k] = t

\* C7 as stated: a re-entrant InitializeClass returns true, without waiting
\* and without changing a status.
C7_ReentrantCallReturnsTrue ==
  [][\A t \in Threads :
       (Reentrant(t) /\ stack'[t] # stack[t])
         => /\ status' = status
            /\ Returned(t) \/ stack'[t] = WithTop(t, [Top(t) EXCEPT !.pc = "lock"])[t]
            /\ Returned(t) => ret'[t].success]_vars

\* C7 amended: a re-entrant InitializeClass neither waits nor changes a
\* status; it returns what the fast-fail test CanWeInitializeClass says:
\* true when both can_init flags are set, false when the caller forbids
\* statics and the class has a <clinit> or static values.
C7_ReentrantCallReturnsFastFailTest ==
  [][\A t \in Threads :
       (Reentrant(t) /\ stack'[t] # stack[t])
         => /\ status' = status
            /\ exc' = exc
            /\ Returned(t) \/ stack'[t] = WithTop(t, [Top(t) EXCEPT !.pc = "lock"])[t]
            /\ Returned(t)
                 => /\ ret'[t].success = CanWeInitializeClass(Top(t).k, Top(t).cs, Top(t).cp)
                    /\ (Top(t).cs /\ Top(t).cp) => ret'[t].success]_vars

\* C7 witness: the class being initialized asked for its super class, which
\* this thread is initializing further up, and got true.
C7_Witness ==
  \E t \in Threads :
    /\ At(t, "InitializeClass", "superInitialized")
    /\ ret[t].success
    /\ status[superClass[Top(t).k]] = kStatusInitializing
    /\ clinitThreadId[superClass[Top(t).k]] = t

\* thread u is in a call of InitializeClass on a class that another thread
\* is initializing
InitializedElsewhere(u) ==
  /\ stack[u] # <<>>
  /\ Top(u).fn = "InitializeClass"
  /\ Top(u).pc \in {"start", "lock", "WaitForInitializeClass"}
  /\ status[Top(u).k] = kStatusInitializing
  /\ clinitThreadId[Top(u).k] # u

\* C8 as stated: a thread that calls InitializeClass on a class another
\* thread is initializing does not return while the class is Initializing.
C8_NoReturnWhileInitializing ==
  [][\A u \in Threads : InitializedElsewhere(u) => ~Returned(u)]_vars

\* C8 amended: such a call returns while the class is still Initializing
\* only from the fast-fail test, with false and no exception; past that
\* test it waits, and the wait ends with true on an Initialized class and
\* with false and a NoClassDefFoundError on an erroneous one.
C8_WaitsUnlessFastFail ==
  [][\A u \in Threads :
       /\ (InitializedElsewhere(u) /\ Returned(u))
            => /\ Top(u).pc = "start"
               /\ ~CanWeInitializeClass(Top(u).k, Top(u).cs, Top(u).cp)
               /\ ~(Top(u).cs /\ Top(u).cp)
               /\ ~ret'[u].success
               /\ exc'[u] = exc[u]
       /\ (/\ stack[u] # <<>>
           /\ Top(u).fn = "InitializeClass"
           /\ Top(u).pc = "WaitForInitializeClass"
           /\ Returned(u))
            => \/ IsInitialized(Top(u).k) /\ ret'[u].success /\ exc'[u] = exc[u]
               \/ /\ IsErroneous(Top(u).k)
                  /\ ~ret'[u].success
                  /\ exc'[u] = Throw("NoClassDefFoundError")]_vars

\* C8 witness: a thread waits in WaitForInitializeClass on a class whose
\* initializer, another thread, has just made it Initialized.
C8_Witness ==
  \E u \in Threads :
    /\ At(u, "InitializeClass", "WaitForInitializeClass")
    /\ IsInitialized(Top(u).k)
    /\ clinitThreadId[Top(u).k] # u
    /\ clinitInvoked[Top(u).k] = 1

\* C9: when the static values or the <clinit> of a class leave an exception
\* pending, InitializeClass returns false, the class is Error, and the
\* pending exception is an ExceptionInInitializerError around the original,
\* or the original itself if that is a java.lang.Error.
C9_InitializerFailureIsWrapped ==
  [][\A t \in Threads :
       /\ (/\ stack[t] # <<>>
           /\ Top(t).fn = "InitializeClass"
           /\ Top(t).pc = "finish"
           /\ exc[t] # NoException
           /\ stack'[t] # stack[t])
            => /\ Returned(t)
               /\ ~ret'[t].success
               /\ status'[Top(t).k] = kStatusError
               /\ exc'[t] = IF exc[t].kind = "UserException"
                            THEN [kind |-> "ExceptionInInitializerError",
                                  cause |-> "UserException"]
                            ELSE exc[t]
       /\ stack'[t] = <<>> => exc'[t].kind # "UserException"]_vars

\* C9 witness: EnsureInitialized came back false on a class now erroneous,
\* with the ExceptionInInitializerError that wraps what its <clinit> threw.
C9_Witness ==
  \E t \in Threads :
    /\ stack[t] = <<>>
    /\ call[t].op = "EnsureInitialized"
    /\ ~ret[t].success
    /\ IsErroneous(call[t].k)
    /\ clinitInvoked[call[t].k] = 1
    /\ exc[t] = [kind |-> "ExceptionInInitializerError", cause |-> "UserException"]

\* C10 as stated: a class with a super class has its <clinit> invoked and
\* is Initialized only when its super class is Initialized.
C10_SuperInitializedFirst ==
  \A c \in Defined :
    (HasSuperClass(c) /\ (IsInitialized(c) \/ clinitInvoked[c] > 0))
      => IsInitialized(superClass[c])

\* C10 amended: a class defined from a class definition has its <clinit>
\* invoked and becomes Initialized only when its super class is Initialized
\* or is being initialized by the same thread (the class was asked for from
\* inside the super class's own initialization); so the super class of an
\* Initialized class is Initialized, Initializing or Error.
C10_SuperInitializedOrInitializingBySelf ==
  [][\A c \in Objs :
       (Live(c) /\ klassDesc[c] \in Descs /\ HasSuperClass(c))
         => /\ (\/ status'[c] = kStatusInitialized /\ status[c] # kStatusInitialized
                \/ clinitInvoked'[c] > clinitInvoked[c])
                 => \/ IsInitialized(superClass[c])
                    \/ /\ status[superClass[c]] = kStatusInitializing
                       /\ clinitThreadId[superClass[c]] = clinitThreadId[c]
            /\ status'[c] = kStatusInitialized
                 => status'[superClass[c]] \in {kStatusInitializing, kStatusInitialized,
                                               kStatusError}]_vars

\* C10 witness: class C is Initialized while its super class, whose
\* <clinit> asked for C, is still Initializing.
C10_Witness ==
  \E c \in Defined :
    /\ HasSuperClass(c)
    /\ IsInitialized(c)
    /\ clinitInvoked[c] = 1
    /\ status[superClass[c]] = kStatusInitializing

\* the class table's entry under (d, l), NULL if there is none
TableEntry(d, l) ==
  IF \E e \in class_table_ : klassDesc[e] = d /\ klassLoader[e] = l
  THEN CHOOSE e \in class_table_ : klassDesc[e] = d /\ klassLoader[e] = l
  ELSE NULL
\* thread t is in FindClass(d, l), has made no class object of its own, and
\* the table's entry under (d, l) is erroneous
FindsErroneous(t) ==
  /\ stack[t] # <<>>
  /\ Top(t).fn = "FindClass"
  /\ Top(t).pc \in {"LookupClass", "EnsureResolved", "EnsureResolvedResult"}
  /\ Top(t).k = NULL
  /\ TableEntry(Top(t).d, Top(t).l) # NULL
  /\ IsErroneous(TableEntry(Top(t).d, Top(t).l))

\* C11: FindClass for a (descriptor, loader) whose table entry is erroneous
\* goes from the lookup straight to EnsureResolved's rejection: it returns
\* null with a new NoClassDefFoundError, or an exception of the recorded
\* verify error class, allocates no class object, defines and links
\* nothing, and leaves the class table and every status as they are.  (The
\* compiler's FindSystemClass call on the boot class path has a CHECK on
\* that null, which ends the process instead of returning.)
C11_ErroneousEntryIsRejected ==
  [][\A t \in Threads :
       (FindsErroneous(t) /\ stack'[t] # stack[t])
         => LET f == Top(t)
                e == TableEntry(f.d, f.l)
            IN  /\ tableVars' = tableVars
                /\ klassDesc' = klassDesc
                /\ status' = status
                /\ superClass' = superClass
                /\ IF f.pc = "LookupClass"
                   THEN stack'[t] = WithTop(t, [f EXCEPT !.pc = "EnsureResolved", !.e = e])[t]
                   ELSE IF f.pc = "EnsureResolved"
                   THEN stack'[t] = WithTop(t, [f EXCEPT !.pc = "EnsureResolvedResult"])[t]
                   ELSE /\ f.e = e
                        /\ exc'[t] = IF verifyErrorClass[e] # "none"
                                     THEN [kind |-> verifyErrorClass[e], cause |-> "none"]
                                     ELSE [kind |-> "NoClassDefFoundError", cause |-> "none"]
                        /\ Returned(t) /\ ret'[t].class = NULL /\ ~aborted']_vars

\* C11 witness: a FindClass call is over with null and the exception of the
\* earlier failure, the erroneous class is still the table's entry, and the
\* other thread's earlier FindClass of the same class ended with the failure
\* itself.
C11_Witness ==
  \E t, u \in Threads :
    /\ t # u
    /\ stack[t] = <<>> /\ stack[u] = <<>>
    /\ call[t].op = "FindClass" /\ call[u].op = "FindClass"
    /\ call[t].d = call[u].d /\ call[t].l = call[u].l
    /\ ret[t].class = NULL /\ ret[u].class = NULL
    /\ TableEntry(call[t].d, call[t].l) # NULL
    /\ IsErroneous(TableEntry(call[t].d, call[t].l))
    /\ exc[t] = ThrowEarlierClassFailure(TableEntry(call[t].d, call[t].l))
    /\ exc[u] # exc[t]

\* thread t is in VerifyClass and the verifier has reported a soft failure
SoftFailure(t) ==
  /\ stack[t] # <<>>
  /\ Top(t).fn = "VerifyClass"
  /\ Top(t).pc = "verified"
  /\ Top(t).d = "kSoftFailure"

\* C12 as stated: after a soft failure of the verifier, in the compiler or
\* at runtime, VerifyClass returns with the class at
\* RetryVerificationAtRuntime and no exception pending.
C12_SoftFailureDefersVerification ==
  [][\A t \in Threads :
       (SoftFailure(t) /\ stack'[t] # stack[t])
         => /\ Returned(t)
            /\ status'[Top(t).k] = kStatusRetryVerificationAtRuntime
            /\ exc'[t] = NoException]_vars

\* C12 amended: after a soft failure of the verifier VerifyClass returns
\* with no exception pending and the class at RetryVerificationAtRuntime in
\* the compiler, at Verified at runtime; never at Error.
C12_SoftFailureDefersInCompilerOnly ==
  [][\A t \in Threads :
       (SoftFailure(t) /\ stack'[t] # stack[t])
         => /\ Returned(t)
            /\ status'[Top(t).k] = IF IsCompiler THEN kStatusRetryVerificationAtRuntime
                                   ELSE kStatusVerified
            /\ exc'[t] = NoException]_vars

\* C12 witness: at runtime the verifier has reported a soft failure for a
\* class that the compiler had left to be verified again.
C12_Witness ==
  \E t \in Threads :
    /\ SoftFailure(t)
    /\ ~IsCompiler
    /\ status[Top(t).k] = kStatusVerifyingAtRuntime

\* thread t is in VerifyClass on a class with a super class, at "Verify
\* super class" (pc super) or back from VerifyClass(super) (pc superVerified)
VerifiesSuper(t, pc) ==
  /\ stack[t] # <<>>
  /\ Top(t).fn = "VerifyClass"
  /\ Top(t).pc = pc
  /\ superClass[Top(t).k] # NULL

RECURSIVE AncestorsOf(_)
AncestorsOf(k) ==
  IF superClass[k] = NULL THEN {} ELSE {superClass[k]} \cup AncestorsOf(superClass[k])
\* what the caller forbids is needed: (a) statics are forbidden and the
\* class or an ancestor still to be initialized has a <clinit> or static
\* values; (b) parents are forbidden and the super class is not Initialized
FastFailNeeded(k, can_init_statics, can_init_parents) ==
  \/ /\ ~can_init_statics
     /\ \E a \in {k} \cup {x \in AncestorsOf(k) : ~IsInitialized(x)} :
          FindClassInitializer(klassDesc[a]) \/ HasStaticValues(klassDesc[a])
  \/ /\ ~can_init_parents
     /\ HasSuperClass(k)
     /\ ~IsInitialized(superClass[k])

\* C14: on a class that is not Initialized, InitializeClass fast-fails
\* exactly when what the caller forbids is needed; it then returns false
\* with no exception, no monitor taken and no status changed, and otherwise
\* it goes on to take the monitor.
C14_FastFailExactlyWhenNeeded ==
  [][\A t \in Threads :
       (/\ stack[t] # <<>>
        /\ Top(t).fn = "InitializeClass"
        /\ Top(t).pc = "start"
        /\ ~IsInitialized(Top(t).k)
        /\ stack'[t] # stack[t])
         => IF FastFailNeeded(Top(t).k, Top(t).cs, Top(t).cp)
            THEN /\ Returned(t)
                 /\ ~ret'[t].success
                 /\ exc' = exc
                 /\ status' = status
                 /\ lockVars' = lockVars
            ELSE stack'[t] = WithTop(t, [Top(t) EXCEPT !.pc = "lock"])[t]]_vars

\* thread u is blocked in WaitForInitializeClass on class k
WaitsFor(u, k) ==
  /\ stack[u] # <<>>
  /\ Top(u).fn = "InitializeClass"
  /\ Top(u).pc = "WaitForInitializeClass"
  /\ Top(u).k = k

\* C15: once the class a thread waits for in WaitForInitializeClass is
\* Initialized or Error, the waiting call eventually returns (unless a
\* failed CHECK ends the process).
C15_WaitersReturn ==
  \A u \in Threads : \A k \in Objs :
    (WaitsFor(u, k) /\ status[k] \in {kStatusInitialized, kStatusError})
      ~> (~WaitsFor(u, k) \/ aborted)

\* C15 witness: a thread is blocked in WaitForInitializeClass on a class
\* whose initializer has just ended in Error.
C15_Witness ==
  \E u \in Threads : \E k \in Objs :
    /\ WaitsFor(u, k)
    /\ ~aborted
    /\ status[k] = kStatusError
    /\ clinitThreadId[k] # u

\* the field array LinkFields(is_static) works on
FieldsArray(is_static) == IF is_static THEN sfields ELSE ifields
\* LinkFields(is_static) has run and returned
LaidOut(is_static) == linkFieldsRuns[is_static] >= 1 /\ ~aborted
\* the offset the first field is to get
BaseOffset(is_static) ==
  IF is_static THEN fieldsKlass.fields_offset
  ELSE IF fieldsKlass.super_object_size = NoSuperClass THEN 0
       ELSE fieldsKlass.super_object_size
NameRank(n) == CASE n = "a" -> 1 [] n = "b" -> 2 [] n = "c" -> 3 [] n = "referent" -> 4
IsWide(f) == f.type \in {"J", "D"}
IsReference(f) == f.type = "L"
References(a) == {i \in 1..Len(a) : IsReference(a[i])}

\* C16: after LinkFields (static or instance), every reference field comes
\* before every primitive field in the field array, the reference fields
\* take consecutive 4-byte slots from the base offset on in ascending name
\* order, and the recorded reference count is the number of reference
\* fields, less one only for the instance fields of java.lang.ref.Reference
\* (its field referent).
C16_ReferencesFirstAndCounted ==
  \A is_static \in BOOLEAN :
    LaidOut(is_static) =>
      LET a == FieldsArray(is_static)
          n == Cardinality(References(a))
      IN  /\ References(a) = 1..n
          /\ \A i \in 1..n : fieldOffset[a[i]] = BaseOffset(is_static) + 4 * (i - 1)
          /\ \A i, j \in 1..n : i < j => NameRank(a[i].name) < NameRank(a[j].name)
          /\ num_reference_fields_[is_static] =
               IF /\ ~is_static
                  /\ fieldsKlass.descriptor = "Ljava/lang/ref/Reference;"
                  /\ \E i \in 1..n : a[i].name = "referent"
               THEN n - 1 ELSE n

\* C16 witness: LinkFields has laid out a class with two reference fields
\* and a primitive one, and the instance fields of java.lang.ref.Reference.
C16_Witness ==
  \/ /\ LaidOut(TRUE)
     /\ Len(sfields) = 4
     /\ Cardinality(References(sfields)) = 2
  \/ /\ LaidOut(FALSE)
     /\ fieldsKlass.descriptor = "Ljava/lang/ref/Reference;"
     /\ Len(ifields) = 3
     /\ num_reference_fields_[FALSE] = 2

\* the fields after the references come as the 64-bit ones by name and then
\* the 32-bit ones by name
WideThenNarrow(q) ==
  \A i, j \in 1..Len(q) :
    i < j => /\ IsWide(q[j]) => IsWide(q[i])
             /\ IsWide(q[i]) = IsWide(q[j]) => NameRank(q[i].name) <= NameRank(q[j].name)

\* C17: after LinkFields (the base offset is a multiple of 4), every 64-bit
\* field has an offset that is a multiple of 8, no two fields overlap, and
\* the array is the references, then the 64-bit fields by name, then the
\* 32-bit fields by name; when the offset after the references is not a
\* multiple of 8 the first 32-bit field by name is moved into that word, and
\* if there is none the word is left as padding before the first 64-bit field.
C17_WideFieldsAlignedAndPacked ==
  \A is_static \in BOOLEAN :
    (LaidOut(is_static) /\ BaseOffset(is_static) % 4 = 0) =>
      LET a == FieldsArray(is_static)
          n == Cardinality(References(a))
          rest == SubSeq(a, n + 1, Len(a))
          after_refs == BaseOffset(is_static) + 4 * n
          size(f) == IF IsWide(f) THEN 8 ELSE 4
          narrow == {i \in 1..Len(rest) : ~IsWide(rest[i])}
      IN  /\ \A i \in 1..Len(a) : IsWide(a[i]) => fieldOffset[a[i]] % 8 = 0
          /\ \A i, j \in 1..Len(a) :
               i < j => fieldOffset[a[i]] + size(a[i]) <= fieldOffset[a[j]]
          /\ References(a) = 1..n
          /\ IF rest = <<>> THEN TRUE
             ELSE IF after_refs % 8 = 0
             THEN WideThenNarrow(rest) /\ fieldOffset[rest[1]] = after_refs
             ELSE IF narrow # {}
             THEN /\ ~IsWide(rest[1])
                  /\ fieldOffset[rest[1]] = after_refs
                  /\ \A i \in narrow : NameRank(rest[1].name) <= NameRank(rest[i].name)
                  /\ WideThenNarrow(Tail(rest))
                  /\ Len(rest) > 1 => fieldOffset[rest[2]] = after_refs + 4
             ELSE WideThenNarrow(rest) /\ fieldOffset[rest[1]] = after_refs + 4

\* C17 witness: the fields {c: reference, b: long, a: int, referent:
\* reference} laid out from an aligned base as c, referent, b, a; a class
\* whose int was moved before its long; and a class with a padding word.
C17_Witness ==
  \/ /\ LaidOut(TRUE)
     /\ fieldsKlass.fields_offset % 8 = 0
     /\ sfields = <<[name |-> "c", type |-> "L"], [name |-> "referent", type |-> "L"],
                    [name |-> "b", type |-> "J"], [name |-> "a", type |-> "I"]>>
  \/ /\ LaidOut(FALSE)
     /\ fieldsKlass.super_object_size = 12
     /\ ifields = <<[name |-> "b", type |-> "I"], [name |-> "a", type |-> "J"],
                    [name |-> "c", type |-> "I"]>>
  \/ /\ LaidOut(FALSE)
     /\ fieldsKlass.super_object_size = 12
     /\ ifields = <<[name |-> "a", type |-> "J"]>>
     /\ fieldOffset[[name |-> "a", type |-> "J"]] = 16

\* no two fields of the array have the same name
DistinctNames(a) == \A i, j \in 1..Len(a) : i # j => a[i].name # a[j].name

\* C18: a second run of LinkFields (same is_static) on fields with distinct
\* names that LinkFields has laid out leaves every offset, the order of the
\* array, the reference count and the recorded size as they were.
C18_SecondRunChangesNothing ==
  [][\A is_static \in BOOLEAN :
       (/\ LaidOut(is_static)
        /\ linkFieldsRuns'[is_static] = linkFieldsRuns[is_static] + 1
        /\ DistinctNames(FieldsArray(is_static)))
         => /\ ~aborted'
            /\ sfields' = sfields /\ ifields' = ifields
            /\ fieldOffset' = fieldOffset
            /\ num_reference_fields_' = num_reference_fields_
            /\ class_size_' = class_size_ /\ object_size_' = object_size_]_vars

\* C18 witness: LinkFields ran twice on four instance fields of distinct
\* names, a reference, a long and two ints among them, above a super class
\* whose size is not a multiple of 8.
C18_Witness ==
  /\ linkFieldsRuns[FALSE] = 2 /\ ~aborted
  /\ Len(ifields) = 4 /\ DistinctNames(ifields)
  /\ fieldsKlass.super_object_size = 12
  /\ Cardinality(References(ifields)) = 1
  /\ Cardinality({i \in 1..4 : IsWide(ifields[i])}) = 1

\* the interfaces the iftable of a class lists, in order
Listed(klass) == [i \in 1..Len(iftable[klass]) |-> iftable[klass][i].interface]
\* the interfaces a class implements according to the definitions: its
\* direct interfaces, theirs, and those of its super classes
RECURSIVE InterfaceClosure(_)
InterfaceClosure(klass) ==
  LET direct == {ifDefs[klass].interfaces[i] : i \in 1..Len(ifDefs[klass].interfaces)}
  IN  direct \cup UNION {InterfaceClosure(d) : d \in direct}
             \cup (IF ifDefs[klass].super_class = "none" THEN {}
                   ELSE InterfaceClosure(ifDefs[klass].super_class))
\* tbl followed by the elements of q it does not hold yet
RECURSIVE AppendNew(_, _)
AppendNew(tbl, q) ==
  IF q = <<>> THEN tbl
  ELSE AppendNew(IF \E i \in 1..Len(tbl) : tbl[i] = Head(q) THEN tbl ELSE Append(tbl, Head(q)),
                 Tail(q))
\* tbl followed by each direct interface it does not hold yet, each with
\* the entries of its own iftable not held yet
RECURSIVE ListedAfter(_, _)
ListedAfter(tbl, directs) ==
  IF directs = <<>> THEN tbl
  ELSE ListedAfter(IF \E i \in 1..Len(tbl) : tbl[i] = Head(directs) THEN tbl
                   ELSE AppendNew(Append(tbl, Head(directs)), Listed(Head(directs))),
                   Tail(directs))

\* C19: the iftable of every class linked by LinkInterfaceMethods lists each
\* interface at most once, starts with the super class's iftable entries in
\* their order, goes on with each direct interface not yet listed followed
\* by the entries of that interface's iftable not yet listed, and lists
\* exactly the transitive interface closure of the class and its super
\* classes.
C19_IfTableIsFlattenedClosure ==
  \A klass \in IfKlasses :
    ifLinked[klass] = "yes" =>
      LET tbl == Listed(klass)
          sup == IF ifDefs[klass].super_class = "none" THEN <<>>
                 ELSE Listed(ifDefs[klass].super_class)
      IN  /\ \A i, j \in 1..Len(tbl) : i # j => tbl[i] # tbl[j]
          /\ Len(tbl) >= Len(sup) /\ SubSeq(tbl, 1, Len(sup)) = sup
          /\ tbl = ListedAfter(sup, ifDefs[klass].interfaces)
          /\ {tbl[i] : i \in 1..Len(tbl)} = InterfaceClosure(klass)

\* C19 witness: A implements I, J extends I, B extends A and lists J and
\* then I: the iftable of B is that of A, then J, and nothing twice.
C19_Witness ==
  /\ ifLinked["B"] = "yes"
  /\ ifDefs["J"].interfaces = <<"I">>
  /\ ifDefs["B"].interfaces = <<"J", "I">>
  /\ Listed("A") = <<"I">>
  /\ Listed("B") = <<"I", "J">>

\* the methods of the interfaces listed by klass that map to slot s and for
\* which the vtable of klass holds a method of the same name and signature
ImplementedInSlot(klass, s) ==
  LET vt == GetVTableDuringLinking(klass)
  IN  {m \in UNION {{ifDefs[d].methods[j] : j \in 1..Len(ifDefs[d].methods)} :
                      d \in {iftable[klass][i].interface : i \in 1..Len(iftable[klass])}} :
         /\ m.dex_method_index % kImtSize = s
         /\ \E k \in 1..Len(vt) : vt[k].name = m.name}
\* the method of the vtable that implements interface method m
Implementation(klass, m) ==
  LET vt == GetVTableDuringLinking(klass)
      ks == {k \in 1..Len(vt) : vt[k].name = m.name}
  IN  vt[CHOOSE k \in ks : \A o \in ks : o <= k]

\* C20: after LinkInterfaceMethods on a class that is no interface, a slot
\* of its interface method table to which exactly one implemented interface
\* method maps holds the implementing method, a slot to which two or more
\* map holds the conflict method, a slot to which none maps holds the
\* conflict method, and no slot is null.
C20_ImtSlotsHoldMethodOrConflict ==
  \A klass \in IfKlasses :
    (ifLinked[klass] = "yes" /\ ~ifDefs[klass].is_interface) =>
      \A s \in 0..(kImtSize - 1) :
        /\ imtable[klass][s] # NullMethod
        /\ imtable[klass][s] =
             IF Cardinality(ImplementedInSlot(klass, s)) = 1
             THEN Implementation(klass, CHOOSE m \in ImplementedInSlot(klass, s) : TRUE)
             ELSE ImtConflictMethod

\* C20 witness: a linked class two of whose implemented interface methods
\* share slot 0, which holds the conflict method, while slot 1 holds the
\* one method bar that maps to it.
C20_Witness ==
  \E klass \in IfClasses :
    /\ ifLinked[klass] = "yes"
    /\ Cardinality(ImplementedInSlot(klass, 0)) = 2
    /\ imtable[klass][0] = ImtConflictMethod
    /\ Cardinality(ImplementedInSlot(klass, 1)) = 1
    /\ imtable[klass][1].name = "bar"

\* the interface methods of the interfaces the iftable of klass lists
ListedInterfaceMethods(klass) ==
  UNION {{ifDefs[d].methods[j] : j \in 1..Len(ifDefs[d].methods)} :
           d \in {iftable[klass][i].interface : i \in 1..Len(iftable[klass])}}
\* the number of methods LinkInterfaceMethods added to the virtual methods
NumAdded(klass) == Len(ifVirtuals[klass]) - Len(ifDefs[klass].methods)
\* the length the vtable had before it
OldVTableCount(klass) == Len(ifVTable[klass]) - NumAdded(klass)
\* the slots of that vtable holding a method of that name and signature
SlotsOf(klass, name) ==
  {k \in 1..OldVTableCount(klass) : ifVTable[klass][k].name = name}
\* the names and signatures of the interface methods the vtable had no
\* method for
Unimplemented(klass) ==
  {m.name : m \in {x \in ListedInterfaceMethods(klass) : SlotsOf(klass, x.name) = {}}}

C22_VTableFitsSixteenBits ==
  LET needed == (IF vtCount.has_super THEN vtCount.super_vtable_length ELSE 0)
                + vtCount.num_virtual_methods - vtCount.num_overriding
                + vtCount.num_miranda
  IN  /\ vtCount.status = kStatusResolved =>
           /\ vtCount.vtable_length <= MaxUint16
           /\ vtCount.method_index = vtCount.method_slot
           /\ vtCount.miranda_index = vtCount.miranda_slot
      /\ (vtCount.pc = "done" /\ vtCount # NoCount /\ needed > MaxUint16) =>
           /\ vtCount.status = kStatusError
           /\ vtCount.exception = "ClassFormatError"

\* thread t is inside DefineClass for class object o
IsDefining(t, o) ==
  \E i \in 1..Len(stack[t]) :
    /\ stack[t][i].fn = "FindClass" /\ stack[t][i].k = o
    /\ stack[t][i].pc \in {"LoadSuperAndInterfaces", "ResolveType", "LinkClass"}
\* thread t, defining the class of its top frame's table entry, is in
\* EnsureResolved on that class, which is in the table and not resolved
ReentersOwnDefinition(t) ==
  /\ ~aborted
  /\ stack[t] # <<>>
  /\ Top(t).fn = "FindClass" /\ Top(t).pc = "EnsureResolvedLock"
  /\ Top(t).e \in class_table_
  /\ status[Top(t).e] < kStatusResolved
  /\ clinitThreadId[Top(t).e] = t
  /\ IsDefining(t, Top(t).e)
\* the class objects of the classes on the superclass cycle of descriptor d
OnCycleOf(o, d) ==
  /\ d \in Descs
  /\ class_defs.superclass_idx[d] \in Descs
  /\ class_defs.superclass_idx[class_defs.superclass_idx[d]] = d
  /\ klassDesc[o] \in {d, class_defs.superclass_idx[d]}

\* C23: a thread that reaches EnsureResolved on a class it is itself
\* defining is not blocked; its step throws ClassCircularityError, sets the
\* class to kStatusError and returns null; and every DefineClass of a class
\* on a superclass cycle returns null and leaves its class in kStatusError.
C23_CircularityFailsFast ==
  /\ [](\A t \in Threads : ReentersOwnDefinition(t) => ENABLED EnsureResolvedLocked(t))
  /\ [][\A t \in Threads :
          /\ (ReentersOwnDefinition(t) /\ stack'[t] # stack[t]) =>
               /\ exc'[t].kind = "ClassCircularityError"
               /\ status'[Top(t).e] = kStatusError
               /\ ret'[t].class = NULL
               /\ stack'[t] = Pop(t)
               /\ ~aborted'
          /\ (/\ stack[t] # <<>> /\ Top(t).fn = "FindClass" /\ Top(t).k # NULL
              /\ Top(t).k \in class_table_
              /\ OnCycleOf(Top(t).k, Top(t).d)
              /\ Len(stack'[t]) < Len(stack[t])) =>
               /\ ret'[t].class = NULL
               /\ exc'[t] # NoException
               /\ status'[Top(t).k] = kStatusError]_vars

\* C23 witness: S and C extend each other; thread t1, asked for S, has set
\* both to kStatusError and returned null with ClassCircularityError.
C23_Witness ==
  /\ class_defs = CyclicDefs
  /\ stack["t1"] = <<>>
  /\ exc["t1"].kind = "ClassCircularityError"
  /\ ret["t1"].class = NULL
  /\ \E o, p \in class_table_ :
       /\ klassDesc[o] = "S" /\ klassDesc[p] = "C"
       /\ status[o] = kStatusError /\ status[p] = kStatusError
       /\ clinitThreadId[o] = "t1" /\ clinitThreadId[p] = "t1"

\* the threads about to call into the allocator
Allocating == {t \in Threads : reg.pc[t] \in {"AllocDexCache", "AllocClass"}}
\* C24: no thread calls into the allocator while it holds the writer lock
\* of the class table or of the dex cache registry; RegisterDexFile
\* allocates with no lock held and registers under the writer lock only if
\* the dex file is still unregistered, so the registry never holds two
\* entries for one dex file, and holds one once a registration has returned.
C24_NoAllocationUnderWriterLock ==
  /\ \A t \in Allocating :
       /\ reg.classlinker_classes_lock_.writer # t
       /\ reg.dex_lock_.writer # t
       /\ t \notin reg.dex_lock_.readers
  /\ \A f \in DexFiles :
       /\ Cardinality({e \in reg.dex_caches_ : e[1] = f}) <= 1
       /\ \A t \in Threads :
            (reg.pc[t] = "idle" /\ reg.op[t] = "RegisterDexFile" /\ reg.dex_file[t] = f)
              => Cardinality({e \in reg.dex_caches_ : e[1] = f}) = 1

\* C24 witness: both threads allocated a cache for boot.dex with no lock
\* held, and the registry holds the entry of one of them only.
C24_Witness ==
  /\ \A t \in Threads : /\ reg.pc[t] = "idle" /\ reg.op[t] = "RegisterDexFile"
                         /\ reg.dex_file[t] = "boot.dex"
  /\ reg.allocated["t1"] # 0 /\ reg.allocated["t2"] # 0
  /\ reg.allocated["t1"] # reg.allocated["t2"]
  /\ Cardinality(reg.dex_caches_) = 1
  /\ \E e \in reg.dex_caches_ : e[1] = "boot.dex" /\ e[2] \in {reg.allocated["t1"], reg.allocated["t2"]}

\* the class objects of the table that are array classes of descriptor d
ArrayClassesInTable(d) == {o \in class_table_ : klassDesc[o] = d}
\* the class objects a component descriptor resolves to
ComponentClasses(d) == {o \in class_table_ : klassDesc[o] = ComponentOf(d)}

\* C25: the class table holds at most one array class per array descriptor
\* whose component type is one class, and its loader is the loader of the
\* component type; every FindClass for the array descriptor that returns a
\* class, whichever loader it was called with, returns that class.
C25_OneArrayClassPerComponentLoader ==
  /\ [](\A d \in ArrayDescs :
          /\ Cardinality(ArrayClassesInTable(d)) <= 1
          /\ \A o \in ArrayClassesInTable(d) :
               \E c \in ComponentClasses(d) : klassLoader[o] = klassLoader[c])
  /\ [][\A t \in Threads :
          (/\ stack[t] # <<>> /\ stack'[t] = <<>>
           /\ call[t].op = "FindClass" /\ call[t].d \in ArrayDescs
           /\ ret'[t].class # NULL)
            => ArrayClassesInTable(call[t].d)' = {ret'[t].class}]_vars

\* C25 witness: both threads asked for the array class, one with the boot
\* loader and one with the application loader, and both hold the one array
\* class of the table, which goes with the boot loader.
C25_Witness ==
  /\ \A t \in Threads : /\ stack[t] = <<>> /\ call[t].op = "FindClass"
                        /\ call[t].d \in ArrayDescs /\ ret[t].class # NULL
  /\ call["t1"].l # call["t2"].l
  /\ ret["t1"].class = ret["t2"].class
  /\ klassLoader[ret["t1"].class] = BootLoader
  /\ ret["t1"].class \in class_table_

\* C26: every write to a slot of the dex cache's resolved types stores the
\* value the slot holds already, if it holds one: a slot that is not null
\* never changes and is never cleared, whichever class loader ResolveType
\* is called with.
C26_CacheSlotWrittenOnceOrEqual ==
  [][\A d \in RtTypes :
       rt.resolved_types_[d] # NULL => rt'.resolved_types_[d] = rt.resolved_types_[d]]_vars

\* C27: a DefineClass that returns with OutOfMemoryError pending returns
\* null and leaves no kStatusError entry of its own in the class table for
\* its descriptor and loader.
C27_OutOfMemoryLeavesNoErrorEntry ==
  [][\A t \in Threads :
       (/\ stack[t] # <<>>
        /\ Top(t).fn = "FindClass"
        /\ Top(t).pc \in {"DefineClass", "LoadFailed", "ResolveType", "LinkClass"}
        /\ Len(stack'[t]) < Len(stack[t])
        /\ exc'[t].kind = "OutOfMemoryError")
         => /\ ret'[t].class = NULL
            /\ ~(/\ Top(t).k # NULL
                 /\ Top(t).k \in class_table_'
                 /\ klassDesc'[Top(t).k] = Top(t).d
                 /\ klassLoader'[Top(t).k] = Top(t).l
                 /\ status'[Top(t).k] = kStatusError)]_vars

\* the thread that is about to record the outcome of initializing klass
FinishingInitializer(t, klass) ==
  /\ stack[t] # <<>>
  /\ Top(t).fn = "InitializeClass"
  /\ Top(t).k = klass
  /\ Top(t).pc = "finish"
  /\ clinitThreadId[klass] = t

\* C28: a class goes from kStatusInitializing to kStatusInitialized only by
\* its initializing thread, with the monitor of the class free for that thread,
\* no exception pending, its encoded static values read into its fields and
\* its <clinit> invoked and returned; and a thread that is not the
\* initializer of the class is told true by InitializeClass only when the
\* class is already kStatusInitialized.
C28_InitializedOnlyAfterInitializersRan ==
  [][/\ \A klass \in Objs :
          (status[klass] = kStatusInitializing /\ status'[klass] = kStatusInitialized)
            => /\ \E t \in Threads :
                    /\ FinishingInitializer(t, klass)
                    /\ CanLock(t, klass)
                    /\ exc[t] = NoException
               /\ HasStaticValues(klassDesc[klass]) => static_values[klass]
               /\ FindClassInitializer(klassDesc[klass]) => clinitInvoked[klass] >= 1
     /\ \A t \in Threads :
          (/\ stack[t] # <<>>
           /\ Top(t).fn = "InitializeClass"
           /\ Len(stack'[t]) < Len(stack[t])
           /\ ret'[t].success
           /\ clinitThreadId[Top(t).k] # t)
            => status[Top(t).k] = kStatusInitialized]_vars

\* a class with encoded static values and a <clinit> has just been
\* initialized by the EnsureInitialized call of a thread
C28_Witness ==
  \E klass \in Objs : \E t \in Threads :
    /\ status[klass] = kStatusInitialized
    /\ HasStaticValues(klassDesc[klass])
    /\ FindClassInitializer(klassDesc[klass])
    /\ static_values[klass]
    /\ clinitInvoked[klass] >= 1
    /\ clinitThreadId[klass] = t
    /\ call[t].op = "EnsureInitialized"
    /\ call[t].k = klass
    /\ stack[t] = <<>>
    /\ ret[t].success

\* C29: when LinkClass comes to lay out the fields of a class that has a
\* super class, the super class is kStatusResolved or later, so that
\* LinkFields' CHECK(super_class->IsResolved()) holds.
C29_LinkFieldsSuperClassIsResolved ==
  \A t \in Threads :
    (/\ stack[t] # <<>>
     /\ Top(t).fn = "FindClass"
     /\ Top(t).pc = "LinkClass"
     /\ status[Top(t).k] = kStatusLoaded
     /\ HasSuperClass(Top(t).k))
      => IsResolved(superClass[Top(t).k])

\* a thread is inside VerifyClass(klass), past the test of its status
InsideVerifyClass(t, klass) ==
  \E i \in 1..Len(stack[t]) :
    /\ stack[t][i].fn = "VerifyClass"
    /\ stack[t][i].k = klass
    /\ stack[t][i].pc # "start"

\* C30: VerifyClass on a class that is kStatusVerified, kStatusInitializing
\* or kStatusInitialized returns in its first step and leaves every class and
\* the count of verifier runs as they were; at most one thread at a time is
\* inside VerifyClass of a class, and it holds the monitor of the class; and
\* the oat file and the verifier are asked about a class at most once.
C30_VerifyClassIsIdempotent ==
  /\ [](\A klass \in Objs :
          /\ verifier_runs[klass] <= 1
          /\ \A t, u \in Threads :
               InsideVerifyClass(t, klass)
                 => /\ lockOwner[klass] = t
                    /\ InsideVerifyClass(u, klass) => u = t)
  /\ [][\A t \in Threads :
          (/\ stack[t] # <<>>
           /\ Top(t).fn = "VerifyClass"
           /\ Top(t).pc = "start"
           /\ status[Top(t).k] \in {kStatusVerified, kStatusInitializing, kStatusInitialized}
           /\ stack'[t] # stack[t])
            => /\ stack'[t] = Popped(t)[t]
               /\ heapVars' = heapVars
               /\ verifier_runs' = verifier_runs
               /\ exc' = exc]_vars

\* a second VerifyClass call on a class the verifier has been run on once
\* has returned, and the class is kStatusVerified or later
C30_Witness ==
  \E klass \in Objs :
    /\ verifier_runs[klass] = 1
    /\ status[klass] >= kStatusVerified
    /\ \A t \in Threads :
         /\ call[t].op = "VerifyClass"
         /\ call[t].k = klass
         /\ stack[t] = <<>>

\* the classes a table lookup can hand to a thread
InClassTable == {klass \in Objs : klass \in class_table_}

\* C31, as the claim states it: every class in the class table, which is what
\* LookupClass can return, has status kStatusLoaded or later, or is erroneous.
C31_TableHoldsLoadedClasses ==
  \A klass \in InClassTable : IsErroneous(klass) \/ status[klass] >= kStatusLoaded

\* C31, amended: DefineClass inserts its class after LoadClass has loaded the
\* member arrays and before LoadSuperAndInterfaces marks it loaded, so the
\* class enters the table with a descriptor and with a status after
\* kStatusNotReady and before kStatusLoaded; no class in the table is
\* kStatusNotReady; and FindClass returns a class only once it is resolved
\* (or has since become erroneous), never one that is still being linked.
C31_InsertedLoadedMembersNotYetLoaded ==
  /\ [](\A klass \in InClassTable : status[klass] # kStatusNotReady)
  /\ [][\A t \in Threads :
          /\ (/\ stack[t] # <<>>
              /\ Top(t).fn = "FindClass"
              /\ Top(t).pc = "InsertClass"
              /\ Top(t).k \notin class_table_
              /\ Top(t).k \in class_table_')
               => /\ klassDesc[Top(t).k] = Top(t).d
                  /\ status[Top(t).k] > kStatusNotReady
                  /\ status[Top(t).k] < kStatusLoaded
                  /\ status'[Top(t).k] = status[Top(t).k]
          /\ (/\ stack[t] # <<>>
              /\ Top(t).fn = "FindClass"
              /\ Len(stack'[t]) < Len(stack[t])
              /\ ret'[t].class # NULL)
               => \/ status'[ret'[t].class] >= kStatusResolved
                  \/ status'[ret'[t].class] < kStatusNotReady]_vars

\* a thread's FindClass has found in the table a class that its definer has
\* inserted and not yet marked loaded
C31_Witness ==
  \E t \in Threads : \E klass \in InClassTable :
    /\ stack[t] # <<>>
    /\ Top(t).fn = "FindClass"
    /\ Top(t).pc = "EnsureResolved"
    /\ Top(t).e = klass
    /\ clinitThreadId[klass] \in Threads \ {t}
    /\ status[klass] > kStatusNotReady
    /\ status[klass] < kStatusLoaded

\* the slots (from 0) of the inherited vtable that hold a method of the name
\* and signature of declared method m that klass can access
MatchingSlots(klass, m) ==
  {j \in 0..(Len(vtable[klass - 1]) - 1) :
     /\ HasSameNameAndSignature(m, vtable[klass - 1][j + 1])
     /\ CanAccessMember(klass, vtable[klass - 1][j + 1])}
LowestOf(slots) == CHOOSE j \in slots : \A k \in slots : j <= k
HighestOf(slots) == CHOOSE j \in slots : \A k \in slots : k <= j
\* klass is linked, m is declared by it and taken goes to m, and the other
\* matching slots keep the inherited method
TakesSlot(klass, m, taken) ==
  /\ vtable[klass][taken + 1] = m
  /\ methodIndex[m] = taken
  /\ \A j \in MatchingSlots(klass, m) \ {taken} :
       vtable[klass][j + 1] = vtable[klass - 1][j + 1]
DeclaredMethods(klass) ==
  {GetVirtualMethodDuringLinking(klass, i) : i \in 1..NumVirtualMethods(klass)}

IfTableSet(klass) == {iftable[klass][i].interface : i \in 1..Len(iftable[klass])}
\* a marker interface declares no virtual methods
IsMarker(interface) == ifDefs[interface].methods = <<>>

\* C33: a linked class whose iftable holds the same interfaces as its super
\* class's, all of them markers, has the very IfTable object of its super
\* class, however it declares its direct interfaces.
C33_MarkerIfTableIsShared ==
  \A klass \in IfClasses :
    (/\ ifLinked[klass] = "yes"
     /\ SuperOf(klass) # NoKlass
     /\ IfTableSet(klass) = IfTableSet(SuperOf(klass))
     /\ \A interface \in IfTableSet(klass) : IsMarker(interface))
      => ifTableObject[klass] = ifTableObject[SuperOf(klass)]

\* a LookupClass has just moved the image classes into the table
LookupClassMigrated ==
  /\ img.dex_cache_image_class_lookup_required_
  /\ ~img'.dex_cache_image_class_lookup_required_
  /\ img'.op = "LookupClass"
\* a lookup that found its class in the image inserted that class only and
\* left the count of failed lookups alone
FallbackHitInsertsOne ==
  (img' # img /\ img'.path = "hit")
    => /\ img'.class_table_ = img.class_table_ \cup {<<img'.descriptor, BootLoader>>}
       /\ img'.failed_dex_cache_class_lookups_ = img.failed_dex_cache_class_lookups_
       /\ img'.dex_cache_image_class_lookup_required_

\* C34, as the claim states it: LookupClass moves the image classes into the
\* table only when more than kMaxFailedDexCacheLookups lookups in a row have
\* missed both the table and the image, with no lookup found in the image in
\* between; and a lookup found in the image inserts that class only.
C34_MigratesAfterConsecutiveMisses ==
  [][/\ LookupClassMigrated => img'.misses_in_a_row > kMaxFailedDexCacheLookups
     /\ FallbackHitInsertsOne]_vars

\* C34, amended: LookupClass moves the image classes into the table exactly
\* when the lookups that have missed both the table and the image since
\* start-up, in a row or not, come to more than kMaxFailedDexCacheLookups;
\* and a lookup found in the image inserts that class only.
C34_MigratesAfterTotalMisses ==
  [][/\ LookupClassMigrated
          => /\ img'.path = "miss"
             /\ img'.failed_dex_cache_class_lookups_ > kMaxFailedDexCacheLookups
             /\ img'.class_table_ = ImgMoved(img.class_table_)
     /\ (img' # img /\ img'.path = "miss"
           /\ img'.failed_dex_cache_class_lookups_ <= kMaxFailedDexCacheLookups)
          => /\ img'.dex_cache_image_class_lookup_required_
             /\ img'.class_table_ = img.class_table_
     /\ FallbackHitInsertsOne]_vars

\* a LookupClass has moved the image classes after a lookup found in the
\* image had come between the misses
C34_Witness ==
  /\ img.op = "LookupClass"
  /\ img.path = "miss"
  /\ ~img.dex_cache_image_class_lookup_required_
  /\ img.failed_dex_cache_class_lookups_ > kMaxFailedDexCacheLookups
  /\ img.misses_in_a_row < img.failed_dex_cache_class_lookups_

\* thread t is in InitializeClass(klass) and InitializeClass of the super
\* class has just returned false to it
SuperInitFailed(t) ==
  /\ stack[t] # <<>>
  /\ At(t, "InitializeClass", "superInitialized")
  /\ ~ret[t].success
\* a frame of InitializeClass(k) that has reached the static values, the
\* static initializer or the recording of the outcome
PastSuper(k) ==
  \E t \in Threads : \E i \in 1..Len(stack[t]) :
    /\ stack[t][i].fn = "InitializeClass"
    /\ stack[t][i].k = k
    /\ stack[t][i].pc \in {"statics", "clinit", "invoke", "finish"}

\* C35: when InitializeClass of the super class returns false to
\* InitializeClass(C), C becomes Error while its monitor is free for the
\* thread to take, the call returns false with the exception of the super
\* class still the pending one, and neither C's static values nor its
\* <clinit> have run or run at that step; an erroneous class that no
\* InitializeClass is past the super class of never has them run later.
C35_SuperFailureFailsClass ==
  [][/\ \A t \in Threads :
          (SuperInitFailed(t) /\ stack'[t] # stack[t] /\ ~aborted')
            => LET klass == Top(t).k
               IN  /\ CanLock(t, klass)
                   /\ status'[klass] = kStatusError
                   /\ Len(stack'[t]) = Len(stack[t]) - 1
                   /\ ~ret'[t].success
                   /\ exc[t] # NoException
                   /\ exc'[t] = exc[t]
                   /\ ~static_values'[klass]
                   /\ clinitInvoked'[klass] = 0
     /\ \A k \in Objs :
          (status[k] = kStatusError /\ ~PastSuper(k) /\ k \in DOMAIN status')
            => (status'[k] = kStatusError
                  => /\ static_values'[k] = static_values[k]
                     /\ clinitInvoked'[k] = clinitInvoked[k]
                     /\ ~PastSuper(k)')]_vars

\* InitializeClass(C) has returned false because its super class failed: C
\* and the super class are erroneous, the exception is pending, and C has
\* static values and a <clinit> that did not run
C35_Witness ==
  \E t \in Threads : \E k \in Objs :
    /\ status[k] = kStatusError
    /\ HasSuperClass(k)
    /\ IsErroneous(superClass[k])
    /\ clinitThreadId[k] = t
    /\ exc[t] # NoException
    /\ ~ret[t].success
    /\ ~PastSuper(k)
    /\ HasStaticValues(klassDesc[k])
    /\ FindClassInitializer(klassDesc[k])
    /\ ~static_values[k]
    /\ clinitInvoked[k] = 0
    /\ clinitInvoked[superClass[k]] > 0

\* a DefineClass of thread t that has inserted its class in the class table
\* and not yet returned: the frame is the top one or a deeper one
Defining(k) ==
  \E t \in Threads : \E i \in 1..Len(stack[t]) :
    /\ stack[t][i].fn = "FindClass"
    /\ stack[t][i].k = k
    /\ stack[t][i].pc \in {"LoadSuperAndInterfaces", "ResolveType", "LinkClass"}
DefineClassReturns(t) ==
  /\ stack[t] # <<>>
  /\ Top(t).fn = "FindClass"
  /\ Top(t).pc \in {"LoadSuperAndInterfaces", "ResolveType", "LinkClass"}
  /\ Top(t).k \in class_table_
  /\ Len(stack'[t]) < Len(stack[t])

\* C36: when a DefineClass that inserted its class in the class table
\* returns, with the class or with NULL, the class is resolved or erroneous,
\* never Idx or Loaded; so a class of the table that is not yet resolved and
\* not erroneous always has its DefineClass still running, and EnsureResolved
\* has nobody to wait for once that call is over.
C36_DefinerLeavesResolvedOrError ==
  /\ [][\A t \in Threads :
          DefineClassReturns(t)
            => LET klass == Top(t).k
               IN  /\ status'[klass] \notin {kStatusNotReady, kStatusIdx, kStatusLoaded}
                   /\ status'[klass] >= kStatusResolved \/ status'[klass] = kStatusError
                   /\ ret'[t].class = klass <=> status'[klass] # kStatusError]_vars
  /\ [](\A k \in class_table_ :
          (~aborted /\ ~Defining(k)) => (IsResolved(k) \/ IsErroneous(k)))

\* a DefineClass has returned NULL and left its class erroneous in the
\* table, and another has returned its class resolved
C36_Witness ==
  /\ \E k \in class_table_ :
       /\ IsErroneous(k)
       /\ ~Defining(k)
       /\ clinitThreadId[k] # NoThread
  /\ \E k \in class_table_ :
       /\ status[k] = kStatusResolved
       /\ ~Defining(k)
       /\ clinitThreadId[k] # NoThread

\* the static fields of the class by kind, as SizeOfClass counts them
NumStatic(kind) ==
  Cardinality({i \in 1..Len(sfields) :
                 CASE kind = "ref" -> ~IsPrimitiveField(sfields[i])
                   [] kind = "64" -> Is64BitField(sfields[i])
                   [] OTHER -> IsPrimitiveField(sfields[i]) /\ ~Is64BitField(sfields[i])})
LinkStaticFieldsRan == linkFieldsRuns'[TRUE] > linkFieldsRuns[TRUE]

\* C37: whatever the numbers of reference, 64-bit and 32-bit static fields,
\* LinkStaticFields leaves the class size at the value the class was
\* allocated with, which SizeOfClass computed before, and its CHECK_EQ on the
\* two does not fire.
C37_SizeOfClassMatchesLinkStaticFields ==
  [][LinkStaticFieldsRan
       => /\ ~aborted'
          /\ class_size_' = class_size_
          /\ class_size_' >= fieldsKlass.fields_offset + SizeOfFields(sfields)
          /\ class_size_' <= fieldsKlass.fields_offset + SizeOfFields(sfields) + SizeOfUint32]_vars

\* LinkStaticFields has run on a class with 64-bit static fields after an
\* odd number of words, where the alignment word is needed and no 32-bit
\* field is there to fill it
C37_Witness ==
  /\ linkFieldsRuns[TRUE] > 0
  /\ ~aborted
  /\ NumStatic("64") > 0
  /\ ~IsAligned8(fieldsKlass.fields_offset + NumStatic("ref") * SizeOfUint32)
  /\ NumStatic("32") = 0
  /\ NumStatic("ref") > 0
  /\ class_size_ = fieldsKlass.fields_offset + SizeOfFields(sfields) + SizeOfUint32

\* thread t is at the end of VerifyClass, the oat file or the verifier have
\* answered, and the step is that end
VerifyClassEnds(t) ==
  /\ stack[t] # <<>>
  /\ Top(t).fn = "VerifyClass"
  /\ Top(t).pc = "verified"
  /\ Len(stack'[t]) < Len(stack[t])

\* C38: a VerifyClass that leaves the class RetryVerificationAtRuntime does
\* not set the preverified flag on its methods; the flag is set only by a
\* call that ends with the class Verified and with no verifier failure,
\* whatever the oat file answered and whatever the status of the super class.
C38_RetryAtRuntimeIsNotPreverified ==
  [][\A t \in Threads :
       VerifyClassEnds(t)
         => LET klass == Top(t).k
            IN  /\ status'[klass] = kStatusRetryVerificationAtRuntime
                     => ~kAccPreverified'[klass]
                /\ (kAccPreverified'[klass] /\ ~kAccPreverified[klass])
                     => /\ status'[klass] = kStatusVerified
                        /\ Top(t).d \in {"preverified", "kNoFailure"}]_vars

\* slot i (from 0) of the vtable of klass
Slot(klass, i) == vtable[klass][i + 1]
\* the vtable of a linked class C against that of its super class S
VTableExtendsSuper(C, S) ==
  /\ Len(vtable[C]) >= Len(vtable[S])
  /\ \A i \in 0..(Len(vtable[S]) - 1) :
       \/ Slot(C, i) = Slot(S, i)
       \/ /\ Slot(C, i) \in DeclaredMethods(C)
          /\ Slot(C, i)[2] = Slot(S, i)[2]
  /\ \A m \in DeclaredMethods(C) :
       /\ methodIndex[m] \in 0..(Len(vtable[C]) - 1)
       /\ Slot(C, methodIndex[m]) = m

\* C39: the vtable of every linked class C with super class S is at least
\* as long as S's; each slot below S's length holds the method S has there or
\* a method C declares with the same name and signature; C's declared
\* methods sit in the slot their method index names; and linking C leaves
\* the method index of every method C does not declare as it was.
C39_VTableExtendsSuper ==
  /\ [](\A C \in Levels \ {0} : linked[C] = "yes" => VTableExtendsSuper(C, C - 1))
  /\ [][\A C \in Levels :
          (linked[C] = "no" /\ linked'[C] = "yes")
            => \A m \in MethodIds : m[1] # C => methodIndex'[m] = methodIndex[m]]_vars

\* a linked class has overridden one inherited slot, kept another and
\* appended a method of its own
C39_Witness ==
  \E C \in Levels \ {0} :
    /\ linked[C] = "yes"
    /\ Len(vtable[C]) > Len(vtable[C - 1])
    /\ \E i \in 0..(Len(vtable[C - 1]) - 1) : Slot(C, i) # Slot(C - 1, i)
    /\ \E i \in 0..(Len(vtable[C - 1]) - 1) :
         /\ Slot(C, i) = Slot(C - 1, i)
         /\ methodIndex[Slot(C, i)] = i

\* thread t is in EnsureResolved at ObjectLock(klass) and thread u owns the
\* monitor of klass
BlockedOnMonitorOf(t, u) ==
  /\ stack[t] # <<>>
  /\ Top(t).fn = "FindClass"
  /\ Top(t).pc = "EnsureResolvedLock"
  /\ lockOwner[Top(t).e] = u
\* thread t is inside a DefineClass that holds the monitor of its class
DefinesUnderMonitor(t) ==
  \E i \in 1..Len(stack[t]) :
    /\ stack[t][i].fn = "FindClass"
    /\ stack[t][i].pc = "ResolveType"
    /\ lockOwner[stack[t][i].k] = t

\* C40: whatever the super class graph of the classes two threads define,
\* a cycle included, no reachable state has each of the two threads blocked
\* on the monitor of a class that the other holds while it defines it.
C40_NoTwoThreadsBlockEachOther ==
  ~aborted =>
    ~(\E t, u \in Threads :
        /\ t # u
        /\ BlockedOnMonitorOf(t, u) /\ DefinesUnderMonitor(u)
        /\ BlockedOnMonitorOf(u, t) /\ DefinesUnderMonitor(t))

====
